---- MODULE Spec2Model ----
(***************************************************************************)
(* Model of the redirect dataset maintenance of indie-wiki-buddy-scripts:  *)
(* add_redirect_entry (src/addredirect.py) and refresh_sites_json          *)
(* (src/refreshredirects.py) acting on one language's sites JSON file and  *)
(* its favicon folder.                                                     *)
(*                                                                         *)
(* Python dict keys with a space ("base url") are written with an          *)
(* underscore.  Python's None is the string "None" where the value is a    *)
(* string, and 0 where the value is a reference to a list element (the     *)
(* model uses the element's index as the reference).                       *)
(***************************************************************************)
EXTENDS Integers, Sequences, FiniteSets, TLC

VARIABLES
    sites_file,     \* the sites JSON file on disk: [state, entries]
    favicons,       \* filenames saved in the language's favicons folder
    call,           \* the arguments of the latest run
    result,         \* how the latest run ended
    mem,            \* the list a running refresh holds in memory, and its position
    runs,           \* number of runs started (counted in Spec only)
    last_written,   \* history: the file as its last successful write left it
    probe           \* the call in progress in the request and profiling code

vars == <<sites_file, favicons, call, result, mem, runs, last_written, probe>>

None == "None"

----------------------------------------------------------------------------
(* Bounds of the model and the concrete wikis the inputs are drawn from.   *)

NumOrigins == 3
NumDests == 2
NumIds == 2
\* Spec only: the runs of one behaviour, and the entries that can reach the
\* disk before a failing write stops.
MaxRuns == 3
MaxFlushed == 1

\* Entry ids, listed in the order Python's str comparison gives them.
IdPool == <<"en-a", "en-ab", "en-b", "en-c">>

OriginPool == <<"a.fandom.com", "c.fandom.com", "d.fandom.com", "e.fandom.com">>
OriginNames == <<"A Fandom Wiki", "C Fandom Wiki", "D Fandom Wiki", "E Fandom Wiki">>

DestPool == <<"b.wiki.gg", "indie.example.org", "c.miraheze.org">>
DestNames == <<"B Wiki", "Indie Wiki", "C Wiki">>

Ids == {IdPool[i] : i \in 1..NumIds}

\* Position of an id in Python's ordering of the pool.
IdRank(id) == CHOOSE i \in 1..Len(IdPool) : IdPool[i] = id

\* a <= b for two id strings, as list.sort compares the sort keys.
StrLeq(a, b) == IdRank(a) <= IdRank(b)

----------------------------------------------------------------------------
(* Metadata records, as the profilers hand them to the entry builder.      *)

get_wikifarm(base_url) ==
    IF base_url = "b.wiki.gg" THEN "wiki.gg"
    ELSE IF base_url = "c.miraheze.org" THEN "miraheze"
    ELSE None

\* A profiler's record for a wiki.
WikiMetadata(name, base_url, protocol) ==
    [name |-> name, base_url |-> base_url, language |-> "en", full_language |-> "en",
     platform |-> "mediawiki", protocol |-> protocol,
     main_page |-> "Main_Page", content_path |-> "/wiki/", search_path |-> "/index.php",
     icon_path |-> "https://" \o base_url \o "/favicon.ico",
     wikifarm |-> get_wikifarm(base_url)]

OriginMeta(i) == WikiMetadata(OriginNames[i], OriginPool[i], "https")

\* The second destination of the pool is served over http only.
DestMeta(i) == WikiMetadata(DestNames[i], DestPool[i], IF i = 2 THEN "http" ELSE "https")

generate_origin_entry(origin_site_metadata) ==
    [origin |-> origin_site_metadata.name,
     origin_base_url |-> origin_site_metadata.base_url,
     origin_content_path |-> origin_site_metadata.content_path,
     origin_main_page |-> origin_site_metadata.main_page]

\* The builder.  Without an explicit id it looks up origin_entry["base_url"],
\* a key that generate_origin_entry does not set, and raises KeyError.
generate_redirect_entry(origin_site_metadata, destination_site_metadata, entry_id) ==
    LET origin_entry == generate_origin_entry(origin_site_metadata)
        entry == [id |-> entry_id,
                  origins_label |-> origin_entry.origin,
                  origins |-> <<origin_entry>>,
                  destination |-> destination_site_metadata.name,
                  destination_base_url |-> destination_site_metadata.base_url,
                  destination_platform |-> "mediawiki",
                  destination_icon |-> None,
                  destination_main_page |-> destination_site_metadata.main_page,
                  destination_search_path |-> destination_site_metadata.search_path]
        wikifarm == destination_site_metadata.wikifarm
    IN  IF entry_id = None
        THEN [raised |-> "KeyError", entry |-> entry]
        ELSE [raised |-> "",
              entry |-> IF wikifarm # None
                        THEN entry @@ [tags |-> <<wikifarm>>]
                        ELSE entry]

\* The filename stems of the wiki names of the model, as the normalisation
\* (NFKD, lower case, "wiki.gg" -> "wiki", non-alphanumerics removed) gives them.
generate_icon_filename(wiki_name) ==
    IF wiki_name = "B Wiki" THEN "bwiki.png"
    ELSE IF wiki_name = "Indie Wiki" THEN "indiewiki.png"
    ELSE IF wiki_name = "C Wiki" THEN "cwiki.png"
    ELSE IF wiki_name = "bwiki.png" THEN "bwikipng.png"
    ELSE IF wiki_name = "indiewiki.png" THEN "indiewikipng.png"
    ELSE IF wiki_name = "cwiki.png" THEN "cwikipng.png"
    ELSE "wiki.png"

----------------------------------------------------------------------------
(* The dataset file.                                                       *)

\* state "missing": no file; "complete": a JSON array of the entries;
\* "partial": opened for writing and not written to the end (the entries
\* flushed so far, possibly none, and no closing bracket).
MissingFile == [state |-> "missing", entries |-> <<>>]

\* json.load of the file; a missing file reads as the empty list, a file
\* that is not a complete JSON document raises JSONDecodeError.
read_sites_json(file) ==
    IF file.state = "partial"
    THEN [raised |-> "JSONDecodeError", value |-> <<>>]
    ELSE [raised |-> "", value |-> file.entries]

NoFault == <<>>

\* open(path, "w") truncates the file, json.dump then writes it piece by
\* piece.  fault = <<k>>: the write stops after k entries reached the disk.
write_sites_json(redirects_list, fault) ==
    IF fault = NoFault
    THEN [state |-> "complete", entries |-> redirects_list]
    ELSE [state |-> "partial",
          entries |-> SubSeq(redirects_list, 1,
                             IF fault[1] < Len(redirects_list)
                             THEN fault[1] ELSE Len(redirects_list))]

WriteFaults == {<<k>> : k \in 0..MaxFlushed}

----------------------------------------------------------------------------
(* add_redirect_entry and its helpers.                                     *)

OriginUrls(json_entry) ==
    {json_entry.origins[j].origin_base_url : j \in DOMAIN json_entry.origins}

\* Variant: only the first origin of each entry is compared.
validate_origin_uniqueness_first_origin(sites_json, new_origin_base_url) ==
    LET hits == {i \in DOMAIN sites_json :
                    sites_json[i].origins[1].origin_base_url = new_origin_base_url}
    IN  IF hits = {} THEN 0 ELSE CHOOSE i \in hits : \A k \in hits : i <= k

\* Variant: no entry is ever reported.
validate_origin_uniqueness_none(sites_json, new_origin_base_url) == 0

\* Index of the first entry listing the origin, 0 for None.
validate_origin_uniqueness(sites_json, new_origin_base_url) ==
    LET hits == {i \in DOMAIN sites_json : new_origin_base_url \in OriginUrls(sites_json[i])}
    IN  IF hits = {} THEN 0 ELSE CHOOSE i \in hits : \A k \in hits : i <= k

\* Variant: no entry is ever reported.
validate_destination_uniqueness_none(sites_json, new_destination_url) == 0

\* Index of the first entry with the destination, 0 for None.
validate_destination_uniqueness(sites_json, new_destination_url) ==
    LET hits == {i \in DOMAIN sites_json : sites_json[i].destination_base_url = new_destination_url}
    IN  IF hits = {} THEN 0 ELSE CHOOSE i \in hits : \A k \in hits : i <= k

\* Variant: every id passes.
entry_id_is_unique_always(sites_json, new_entry_id) == TRUE

entry_id_is_unique(sites_json, new_entry_id) ==
    \A i \in DOMAIN sites_json : sites_json[i].id # new_entry_id

\* Stable insertion of one entry into a list sorted by id.
RECURSIVE InsertById(_, _)
InsertById(sorted, e) ==
    IF sorted = <<>> THEN <<e>>
    ELSE IF StrLeq(sorted[Len(sorted)].id, e.id) THEN Append(sorted, e)
    ELSE Append(InsertById(SubSeq(sorted, 1, Len(sorted) - 1), e), sorted[Len(sorted)])

\* Variant: the list is left in insertion order.
SortById_unsorted(redirects_list) == redirects_list

\* redirects_list.sort(key=lambda entry: entry["id"]): a stable sort.
RECURSIVE SortById(_)
SortById(redirects_list) ==
    IF redirects_list = <<>> THEN <<>>
    ELSE InsertById(SortById(SubSeq(redirects_list, 1, Len(redirects_list) - 1)),
                    redirects_list[Len(redirects_list)])

\* icon_response is what the icon's server does with the GET request.
IconResponses == {"ok", "connection_error", "http_error", "not_an_image"}

\* Variant: the response's status is not looked at, so the body of an error
\* page goes to the image decoder.
download_wiki_icon_status_unchecked(icon_url, wiki_name, icon_response) ==
    IF icon_response = "connection_error"
    THEN [raised |-> "", filename |-> None, saved |-> {}]
    ELSE IF icon_response \in {"http_error", "not_an_image"}
    THEN [raised |-> "UnidentifiedImageError", filename |-> None, saved |-> {}]
    ELSE [raised |-> "", filename |-> generate_icon_filename(wiki_name),
          saved |-> {generate_icon_filename(wiki_name)}]

download_wiki_icon(icon_url, wiki_name, icon_response) ==
    IF icon_response \in {"connection_error", "http_error"}
    THEN [raised |-> "", filename |-> None, saved |-> {}]
    ELSE IF icon_response = "not_an_image"
    THEN [raised |-> "UnidentifiedImageError", filename |-> None, saved |-> {}]
    ELSE [raised |-> "", filename |-> generate_icon_filename(wiki_name),
          saved |-> {generate_icon_filename(wiki_name)}]

\* Variant: the new origin is put first in the existing entry's origins.
append_to_existing_destination_first(redirects_list, favs, existing, new_entry) ==
    [raised |-> "",
     list |-> [redirects_list EXCEPT ![existing].origins = <<new_entry.origins[1]>> \o @],
     inserted_id |-> redirects_list[existing].id,
     favicons |-> favs,
     icon_requests |-> 0,
     destination_is_new |-> FALSE]

\* Variant: the icon of the destination is fetched on this branch too.
append_to_existing_destination_with_icon(redirects_list, favs, existing, new_entry) ==
    [raised |-> "",
     list |-> [redirects_list EXCEPT ![existing].origins = Append(@, new_entry.origins[1])],
     inserted_id |-> redirects_list[existing].id,
     favicons |-> favs \cup {generate_icon_filename(new_entry.destination)},
     icon_requests |-> 1,
     destination_is_new |-> FALSE]

\* The branch "destination already present": the new origin is appended to
\* the existing entry; no icon is requested.
append_to_existing_destination(redirects_list, favs, existing, new_entry) ==
    [raised |-> "",
     list |-> [redirects_list EXCEPT ![existing].origins = Append(@, new_entry.origins[1])],
     inserted_id |-> redirects_list[existing].id,
     favicons |-> favs,
     icon_requests |-> 0,
     destination_is_new |-> FALSE]

\* Variant: a used id makes the branch return without a value instead of
\* raising.
insert_new_destination_return_none(redirects_list, favs, new_entry, icon_url, icon_response) ==
    IF ~entry_id_is_unique(redirects_list, new_entry.id)
    THEN [raised |-> "", list |-> redirects_list, inserted_id |-> None,
          favicons |-> favs, icon_requests |-> 0, destination_is_new |-> TRUE]
    ELSE
    LET sorted == SortById(Append(redirects_list, new_entry))
        at == CHOOSE i \in DOMAIN sorted : sorted[i].id = new_entry.id
        icon == download_wiki_icon(icon_url, sorted[at].destination, icon_response)
    IN  IF icon_url = None
        THEN [raised |-> "", list |-> sorted, inserted_id |-> new_entry.id,
              favicons |-> favs, icon_requests |-> 0, destination_is_new |-> TRUE]
        ELSE IF icon.raised # ""
        THEN [raised |-> icon.raised, list |-> sorted, inserted_id |-> None,
              favicons |-> favs, icon_requests |-> 1, destination_is_new |-> TRUE]
        ELSE [raised |-> "",
              list |-> IF icon.filename # None
                       THEN [sorted EXCEPT ![at].destination_icon = icon.filename]
                       ELSE sorted,
              inserted_id |-> new_entry.id,
              favicons |-> favs \cup icon.saved,
              icon_requests |-> 1,
              destination_is_new |-> TRUE]

\* The branch "destination not present": assert the id is new, append, sort,
\* then fetch the icon.
insert_new_destination(redirects_list, favs, new_entry, icon_url, icon_response) ==
    IF ~entry_id_is_unique(redirects_list, new_entry.id)
    THEN [raised |-> "AssertionError", list |-> redirects_list, inserted_id |-> None,
          favicons |-> favs, icon_requests |-> 0, destination_is_new |-> TRUE]
    ELSE
    LET sorted == SortById(Append(redirects_list, new_entry))
        \* inserted_entry is the appended object: the last one of its id
        at == CHOOSE i \in DOMAIN sorted :
                  /\ sorted[i].id = new_entry.id
                  /\ \A k \in DOMAIN sorted : sorted[k].id = new_entry.id => k <= i
        icon == download_wiki_icon(icon_url, sorted[at].destination, icon_response)
    IN  IF icon_url = None
        THEN [raised |-> "", list |-> sorted, inserted_id |-> new_entry.id,
              favicons |-> favs, icon_requests |-> 0, destination_is_new |-> TRUE]
        ELSE IF icon.raised # ""
        THEN [raised |-> icon.raised, list |-> sorted, inserted_id |-> None,
              favicons |-> favs, icon_requests |-> 1, destination_is_new |-> TRUE]
        ELSE [raised |-> "",
              list |-> IF icon.filename # None
                       THEN [sorted EXCEPT ![at].destination_icon = icon.filename]
                       ELSE sorted,
              inserted_id |-> new_entry.id,
              favicons |-> favs \cup icon.saved,
              icon_requests |-> 1,
              destination_is_new |-> TRUE]

\* The end of a run: the file is opened for writing only when control
\* reaches the last statement, that is when nothing was raised before.
save_sites_json(file, redirects_list, raised, fault) ==
    IF raised # "" THEN file ELSE write_sites_json(redirects_list, fault)

Result(outcome, raised, returned, icon_requests) ==
    [outcome |-> outcome, raised |-> raised, returned |-> returned,
     icon_requests |-> icon_requests]

add_redirect_entry(file, favs, new_entry, icon_url, icon_response, fault) ==
    LET read == read_sites_json(file)
        redirects_list == read.value
        new_origin_entry_url == new_entry.origins[1].origin_base_url
        existing_origin_redirect ==
            validate_origin_uniqueness(redirects_list, new_origin_entry_url)
        existing_destination_redirect ==
            validate_destination_uniqueness(redirects_list, new_entry.destination_base_url)
        branch ==
            IF existing_destination_redirect # 0
            THEN append_to_existing_destination(redirects_list, favs,
                                                existing_destination_redirect, new_entry)
            ELSE insert_new_destination(redirects_list, favs, new_entry,
                                        icon_url, icon_response)
    IN  IF read.raised # ""
        THEN [file |-> file, favicons |-> favs,
              result |-> Result("read_error", read.raised, None, 0)]
        ELSE IF existing_origin_redirect # 0
        THEN [file |-> file, favicons |-> favs,
              result |-> Result("rejected", "", None, 0)]
        ELSE IF branch.raised # ""
        THEN [file |-> save_sites_json(file, branch.list, branch.raised, fault),
              favicons |-> branch.favicons,
              result |-> Result(IF branch.raised = "AssertionError"
                                THEN "assertion_error" ELSE "icon_error",
                                branch.raised, None, branch.icon_requests)]
        ELSE IF fault # NoFault
        THEN [file |-> save_sites_json(file, branch.list, "", fault),
              favicons |-> branch.favicons,
              result |-> Result("write_error", "OSError", None, branch.icon_requests)]
        ELSE [file |-> save_sites_json(file, branch.list, "", fault),
              favicons |-> branch.favicons,
              result |-> Result(IF branch.destination_is_new THEN "added" ELSE "merged",
                                "", branch.inserted_id, branch.icon_requests)]

----------------------------------------------------------------------------
(* refresh_site_entry and the site requests of refresh_sites_json.         *)

\* dict.get(key): None for a missing key.
Get(dict, key) == IF key \in DOMAIN dict THEN dict[key] ELSE None

\* dict.pop(key)
Without(dict, key) == [k \in DOMAIN dict \ {key} |-> dict[k]]

\* dict[key] = value
With(dict, key, value) == (key :> value) @@ dict

Range(seq) == {seq[k] : k \in DOMAIN seq}

\* The lists of utils.py that refreshredirects.py imports.
DESTINATION_ENTRY_PROPERTIES == <<"base_url", "platform", "icon", "main_page", "search_path">>
ORIGIN_ENTRY_PROPERTIES == <<"base_url", "content_path", "main_page">>

\* The download_wiki_icon of utils.py: fetches the icon and saves it under
\* the normalised stem of the name it is given.
download_wiki_icon_to(icon_url, icon_name, icon_response) ==
    IF icon_name = None
    THEN [raised |-> "TypeError", filename |-> None, saved |-> {}]
    ELSE IF icon_response = "ok"
    THEN [raised |-> "", filename |-> generate_icon_filename(icon_name),
          saved |-> {generate_icon_filename(icon_name)}]
    ELSE [raised |-> "", filename |-> None, saved |-> {}]

\* What one profile_wiki call does: "request_error" (RequestException or
\* MediaWikiAPIError) and "unsupported" (UnsupportedWikiSoftwareError) are
\* caught by refresh_site_entry, "crash" is any other exception, "metadata"
\* is a returned record.
ProfileKinds == {"request_error", "unsupported", "crash", "metadata"}

\* Variant: the icon property is refreshed like the others and the filename
\* on file is not put back.
refresh_site_entry_icon_from_metadata(entry, site_class, update_names, update_icons, profile, icon_response, favs) ==
    LET site_metadata == profile.metadata
        property_list == IF site_class = "destination"
                         THEN DESTINATION_ENTRY_PROPERTIES
                         ELSE ORIGIN_ENTRY_PROPERTIES
        has_tags == "tags" \in DOMAIN entry
        untagged == IF has_tags THEN Without(entry, "tags") ELSE entry
        named == IF update_names
                 THEN With(untagged, site_class, Get(site_metadata, "name"))
                 ELSE untagged
        icon_filename == Get(entry, site_class \o "_icon")
        refreshed == [k \in {site_class \o "_" \o property_list[n] : n \in DOMAIN property_list}
                         |-> Get(site_metadata,
                                 property_list[CHOOSE n \in DOMAIN property_list :
                                                   k = site_class \o "_" \o property_list[n]])]
                     @@ named
        has_icon == "icon" \in Range(property_list)
        with_icon == refreshed
        icon_url == Get(site_metadata, "icon_path")
        downloads == has_icon /\ update_icons /\ icon_url # None
        icon == download_wiki_icon_to(icon_url, icon_filename, icon_response)
        with_protocol == IF Get(site_metadata, "protocol") # "https"
                         THEN With(with_icon, site_class \o "_protocol",
                                   Get(site_metadata, "protocol"))
                         ELSE with_icon
        wikifarm == Get(site_metadata, "wikifarm")
        tags == IF wikifarm # None
                THEN IF ~has_tags THEN <<wikifarm>>
                     ELSE IF wikifarm \in Range(entry.tags) THEN entry.tags
                     ELSE Append(entry.tags, wikifarm)
                ELSE IF has_tags THEN entry.tags ELSE <<>>
        retagged == IF site_class = "destination" /\ (has_tags \/ wikifarm # None)
                    THEN With(with_protocol, "tags", tags)
                    ELSE with_protocol
    IN  IF profile.kind \in {"request_error", "unsupported"}
        THEN [raised |-> "", entry |-> entry, favicons |-> favs, icon_requests |-> 0]
        ELSE IF profile.kind = "crash"
        THEN [raised |-> "Exception", entry |-> entry, favicons |-> favs,
              icon_requests |-> 0]
        ELSE IF downloads /\ icon.raised # ""
        THEN [raised |-> icon.raised, entry |-> entry, favicons |-> favs,
              icon_requests |-> 1]
        ELSE [raised |-> "", entry |-> retagged,
              favicons |-> IF downloads THEN favs \cup icon.saved ELSE favs,
              icon_requests |-> IF downloads THEN 1 ELSE 0]

refresh_site_entry(entry, site_class, update_names, update_icons, profile, icon_response, favs) ==
    LET site_metadata == profile.metadata
        property_list == IF site_class = "destination"
                         THEN DESTINATION_ENTRY_PROPERTIES
                         ELSE ORIGIN_ENTRY_PROPERTIES
        has_tags == "tags" \in DOMAIN entry
        untagged == IF has_tags THEN Without(entry, "tags") ELSE entry
        named == IF update_names
                 THEN With(untagged, site_class, Get(site_metadata, "name"))
                 ELSE untagged
        icon_filename == Get(entry, site_class \o "_icon")
        refreshed == [k \in {site_class \o "_" \o property_list[n] : n \in DOMAIN property_list}
                         |-> Get(site_metadata,
                                 property_list[CHOOSE n \in DOMAIN property_list :
                                                   k = site_class \o "_" \o property_list[n]])]
                     @@ named
        has_icon == "icon" \in Range(property_list)
        with_icon == IF has_icon
                     THEN With(refreshed, site_class \o "_icon", icon_filename)
                     ELSE refreshed
        icon_url == Get(site_metadata, "icon_path")
        downloads == has_icon /\ update_icons /\ icon_url # None
        icon == download_wiki_icon_to(icon_url, icon_filename, icon_response)
        with_protocol == IF Get(site_metadata, "protocol") # "https"
                         THEN With(with_icon, site_class \o "_protocol",
                                   Get(site_metadata, "protocol"))
                         ELSE with_icon
        wikifarm == Get(site_metadata, "wikifarm")
        tags == IF wikifarm # None
                THEN IF ~has_tags THEN <<wikifarm>>
                     ELSE IF wikifarm \in Range(entry.tags) THEN entry.tags
                     ELSE Append(entry.tags, wikifarm)
                ELSE IF has_tags THEN entry.tags ELSE <<>>
        retagged == IF site_class = "destination" /\ (has_tags \/ wikifarm # None)
                    THEN With(with_protocol, "tags", tags)
                    ELSE with_protocol
    IN  IF profile.kind \in {"request_error", "unsupported"}
        THEN [raised |-> "", entry |-> entry, favicons |-> favs, icon_requests |-> 0]
        ELSE IF profile.kind = "crash"
        THEN [raised |-> "Exception", entry |-> entry, favicons |-> favs,
              icon_requests |-> 0]
        ELSE IF downloads /\ icon.raised # ""
        THEN [raised |-> icon.raised, entry |-> entry, favicons |-> favs,
              icon_requests |-> 1]
        ELSE [raised |-> "", entry |-> retagged,
              favicons |-> IF downloads THEN favs \cup icon.saved ELSE favs,
              icon_requests |-> IF downloads THEN 1 ELSE 0]

\* The sites refresh_sites_json requests, in order: for each entry its
\* destination <<i, 0>>, then its origins <<i, j>>.
RECURSIVE SitesFrom(_, _)
SitesFrom(sites_json, i) ==
    IF i > Len(sites_json) THEN <<>>
    ELSE <<<<i, 0>>>> \o [j \in 1..Len(sites_json[i].origins) |-> <<i, j>>]
         \o SitesFrom(sites_json, i + 1)

Sites(sites_json) == SitesFrom(sites_json, 1)

----------------------------------------------------------------------------
(* The state machine.                                                      *)

NoCall == [op |-> "none"]
NoResult == Result("none", "", None, 0)
NoMem == [list |-> <<>>, request |-> 0]

NoProbe == [op |-> "none"]

\* Nothing on disk and no run of the dataset scripts in progress.
DatasetInit ==
    /\ sites_file = MissingFile
    /\ favicons = {}
    /\ call = NoCall
    /\ result = NoResult
    /\ mem = NoMem
    /\ runs = 0
    /\ last_written = MissingFile

dataset_vars == <<sites_file, favicons, call, result, mem, runs, last_written>>

Init == DatasetInit /\ probe = NoProbe

Wrote(r) == r.result.outcome \in {"added", "merged"}

\* One run of the add script: a process that starts with no run in
\* progress, reads the file, does its work and returns.
AddRedirectEntry(new_entry, icon_url, icon_response, fault) ==
    /\ call = NoCall
    /\ \E r \in {add_redirect_entry(sites_file, favicons, new_entry, icon_url,
                                     icon_response, fault)} :
           /\ sites_file' = r.file
           /\ favicons' = r.favicons
           /\ result' = r.result
           /\ call' = [op |-> "add", new_entry |-> new_entry, icon_url |-> icon_url,
                       icon_response |-> IF r.result.icon_requests = 0
                                         THEN "no_request" ELSE icon_response]
           /\ last_written' = IF Wrote(r) THEN r.file ELSE last_written
    /\ UNCHANGED <<mem, probe>>

\* The process of the run exits: its arguments and its result are gone,
\* the file and the favicons stay.
RunExits ==
    /\ call # NoCall
    /\ result.outcome # "running"
    /\ call' = NoCall
    /\ result' = NoResult
    /\ UNCHANGED <<sites_file, favicons, mem, runs, last_written, probe>>

\* The origin wikis a run can be given: those already on file and the first
\* of the pool that is not.  The code only compares origins for equality, so
\* taking new origins in pool order leaves out no case.
OriginOnFile(o) ==
    \E i \in DOMAIN sites_file.entries : OriginPool[o] \in OriginUrls(sites_file.entries[i])

OriginsInUse == {o \in 1..NumOrigins : \A p \in 1..(o - 1) : OriginOnFile(p)}

\* The entries and icon inputs a run of the add script is given.
NewEntries ==
    {generate_redirect_entry(OriginMeta(o), DestMeta(d), id).entry :
        o \in OriginsInUse, d \in 1..NumDests, id \in Ids}

IconUrlOf(new_entry) == "https://" \o new_entry.destination_base_url \o "/favicon.ico"

\* icon_response is the answer of the icon's server to the run's request;
\* a run that sends no request has no answer ("no_request" in call).
AddCall ==
    /\ \E new_entry \in NewEntries :
           \E icon_url \in {None, IconUrlOf(new_entry)} :
               \E icon_response \in IconResponses :
                   AddRedirectEntry(new_entry, icon_url, icon_response, NoFault)
    /\ UNCHANGED runs

NextAdd == AddCall \/ RunExits

SpecAdd == Init /\ [][NextAdd]_vars

\* A run of the add script whose final write may stop early.
AddRun ==
    /\ runs < MaxRuns
    /\ runs' = runs + 1
    /\ \E new_entry \in NewEntries :
           \E icon_url \in {None, IconUrlOf(new_entry)} :
               \E icon_response \in IconResponses :
                   \E fault \in {NoFault} \cup WriteFaults :
                       AddRedirectEntry(new_entry, icon_url, icon_response, fault)

\* refresh_sites_json, first step: the file is opened and parsed.
RefreshBegin(update_names, update_icons) ==
    /\ call = NoCall
    /\ runs < MaxRuns
    /\ runs' = runs + 1
    /\ call' = [op |-> "refresh", update_names |-> update_names,
                update_icons |-> update_icons]
    /\ IF sites_file.state = "missing"
       THEN /\ result' = Result("read_error", "FileNotFoundError", None, 0)
            /\ mem' = NoMem
       ELSE IF sites_file.state = "partial"
       THEN /\ result' = Result("read_error", "JSONDecodeError", None, 0)
            /\ mem' = NoMem
       ELSE /\ result' = Result("running", "", None, 0)
            /\ mem' = [list |-> sites_file.entries, request |-> 1]
    /\ UNCHANGED <<sites_file, favicons, last_written, probe>>

\* refresh_sites_json, one iteration: the next site is profiled and its
\* entry updated in memory.
RefreshSite(profile, icon_response) ==
    /\ result.outcome = "running"
    /\ mem.request <= Len(Sites(mem.list))
    /\ \E i \in DOMAIN mem.list :
         \E j \in 0..Len(mem.list[i].origins) :
           /\ Sites(mem.list)[mem.request] = <<i, j>>
           /\ \E r \in {IF j = 0
                         THEN refresh_site_entry(mem.list[i], "destination",
                                                 call.update_names, call.update_icons,
                                                 profile, icon_response, favicons)
                         ELSE refresh_site_entry(mem.list[i].origins[j], "origin",
                                                 call.update_names, FALSE,
                                                 profile, icon_response, favicons)} :
                  /\ favicons' = r.favicons
                  /\ IF r.raised # ""
                     THEN /\ result' = Result("refresh_error", r.raised, None,
                                              r.icon_requests)
                          /\ mem' = NoMem
                     ELSE /\ result' = result
                          /\ mem' = [list |-> IF j = 0
                                              THEN [mem.list EXCEPT ![i] = r.entry]
                                              ELSE [mem.list EXCEPT ![i].origins[j] = r.entry],
                                     request |-> mem.request + 1]
    /\ UNCHANGED <<sites_file, call, runs, last_written, probe>>

\* refresh_sites_json, last step: the file is written.
RefreshWrite(fault) ==
    /\ result.outcome = "running"
    /\ mem.request > Len(Sites(mem.list))
    /\ sites_file' = write_sites_json(mem.list, fault)
    /\ result' = IF fault = NoFault
                 THEN Result("refreshed", "", None, 0)
                 ELSE Result("write_error", "OSError", None, 0)
    /\ last_written' = IF fault = NoFault THEN sites_file' ELSE last_written
    /\ mem' = NoMem
    /\ UNCHANGED <<favicons, call, runs, probe>>

\* The metadata a profiled site can answer with: that of a wiki of the pool.
RefreshMetadata == {DestMeta(d) : d \in 1..NumDests} \cup {OriginMeta(1)}

RefreshStart == \E update_names, update_icons \in BOOLEAN : RefreshBegin(update_names, update_icons)

RefreshStep ==
    \E kind \in ProfileKinds, metadata \in RefreshMetadata :
        \E icon_response \in {"ok", "http_error"} :
            RefreshSite([kind |-> kind, metadata |-> metadata], icon_response)

RefreshEnd == \E fault \in {NoFault} \cup WriteFaults : RefreshWrite(fault)

Next == AddRun \/ RefreshStart \/ RefreshStep \/ RefreshEnd \/ RunExits

Spec == Init /\ [][Next]_vars

----------------------------------------------------------------------------
(* Properties of add_redirect_entry, stated for SpecAdd.                 *)

Entries == sites_file.entries

\* The call that led to the primed state, and the dataset it read.
IsAddStep == call'.op = "add" /\ sites_file.state # "partial"
NewOriginUrl == call'.new_entry.origins[1].origin_base_url
OriginPresent == \E i \in DOMAIN Entries : NewOriginUrl \in OriginUrls(Entries[i])
DestinationPresent ==
    \E i \in DOMAIN Entries :
        Entries[i].destination_base_url = call'.new_entry.destination_base_url
IdPresent == \E i \in DOMAIN Entries : Entries[i].id = call'.new_entry.id

\* C1: after any sequence of add_redirect_entry calls (inserts, merges,
\* rejections, failed calls) no two entries of the dataset share an id.
C1_NoTwoEntriesShareId ==
    \A i, k \in DOMAIN Entries : i # k => Entries[i].id # Entries[k].id

\* A call with a used id and a new destination has just failed, after a merge.
C1_Witness ==
    /\ result.outcome = "assertion_error"
    /\ \E i \in DOMAIN Entries : Len(Entries[i].origins) >= 2

\* C2: after any sequence of add_redirect_entry calls with single-origin
\* entries every origin_base_url appears at most once in the whole file.
C2_OriginAppearsOnce ==
    \A i, k \in DOMAIN Entries :
        \A j \in DOMAIN Entries[i].origins, l \in DOMAIN Entries[k].origins :
            <<i, j>> # <<k, l>> =>
                Entries[i].origins[j].origin_base_url # Entries[k].origins[l].origin_base_url

\* A duplicate origin was rejected with two entries on file, one of them merged.
C2_Witness ==
    /\ result.outcome = "rejected"
    /\ Len(Entries) = 2
    /\ \E i \in DOMAIN Entries : Len(Entries[i].origins) >= 2

\* C3: after any sequence of add_redirect_entry calls there is at most one
\* entry per destination_base_url.
C3_OneEntryPerDestination ==
    \A i, k \in DOMAIN Entries :
        i # k => Entries[i].destination_base_url # Entries[k].destination_base_url

\* An insert for an existing destination was merged, with two entries on file.
C3_Witness ==
    /\ result.outcome = "merged"
    /\ Len(Entries) = 2
    /\ \E i \in DOMAIN Entries :
           /\ Entries[i].id = result.returned
           /\ Len(Entries[i].origins) >= 2
           /\ call.new_entry.id # Entries[i].id

\* C4: the entries written to the file are in non-decreasing id order, after
\* an insert of a new destination and after a merge alike.
C4_SortedById ==
    \A i \in 1..(Len(Entries) - 1) : StrLeq(Entries[i].id, Entries[i + 1].id)

\* The entry just added was appended last and sorted to the front.
C4_Witness ==
    /\ result.outcome = "added"
    /\ Len(Entries) >= 2
    /\ Entries[1].id = result.returned
    /\ Entries[1].origins[1].origin_base_url = call.new_entry.origins[1].origin_base_url

\* C5: a call whose destination exists and whose origin is not yet in the
\* dataset appends the origin last in that entry's origins; the number of
\* entries, every other entry and the entry's other fields are unchanged.
C5_MergeStep ==
    (IsAddStep /\ DestinationPresent /\ ~OriginPresent) =>
        /\ result'.outcome = "merged"
        /\ sites_file'.state = "complete"
        /\ Len(sites_file'.entries) = Len(Entries)
        /\ \E i \in DOMAIN Entries :
               /\ Entries[i].destination_base_url = call'.new_entry.destination_base_url
               /\ sites_file'.entries[i] =
                      [Entries[i] EXCEPT !.origins = Append(@, call'.new_entry.origins[1])]
               /\ result'.returned = Entries[i].id
               /\ \A k \in DOMAIN Entries : k # i => sites_file'.entries[k] = Entries[k]

C5_MergeGrowsOriginsByOne == [][C5_MergeStep]_vars

\* A tagged entry holding an icon received a second origin; another entry exists.
C5_Witness ==
    /\ result.outcome = "merged"
    /\ Len(Entries) = 2
    /\ \E i \in DOMAIN Entries :
           /\ Entries[i].id = result.returned
           /\ "tags" \in DOMAIN Entries[i]
           /\ Entries[i].destination_icon # None
           /\ Len(Entries[i].origins) = 2
           /\ Entries[i].origins[2].origin_base_url =
                  call.new_entry.origins[1].origin_base_url

\* C6: a call whose origin already appears in some entry is rejected: it
\* returns no id, leaves the file unchanged and requests no icon, also when
\* its destination matches an existing entry.
C6_RejectStep ==
    (IsAddStep /\ OriginPresent) =>
        /\ result'.outcome = "rejected"
        /\ result'.raised = ""
        /\ result'.returned = None
        /\ result'.icon_requests = 0
        /\ sites_file' = sites_file
        /\ favicons' = favicons

C6_DuplicateOriginRejected == [][C6_RejectStep]_vars

\* Rejected although the destination is that of another entry (a merge
\* candidate), with an icon URL supplied.
C6_Witness ==
    /\ result.outcome = "rejected"
    /\ call.icon_url # None
    /\ \E i, k \in DOMAIN Entries :
           /\ i # k
           /\ Entries[i].destination_base_url = call.new_entry.destination_base_url
           /\ call.new_entry.origins[1].origin_base_url \in OriginUrls(Entries[k])

\* C7: on the new-destination path a call whose id is already used fails
\* with an error that is not the duplicate-origin rejection; the file is
\* unchanged and no icon is requested.
C7_DuplicateIdStep ==
    (IsAddStep /\ ~OriginPresent /\ ~DestinationPresent /\ IdPresent) =>
        /\ result'.outcome = "assertion_error"
        /\ result'.raised = "AssertionError"
        /\ result'.icon_requests = 0
        /\ sites_file' = sites_file
        /\ favicons' = favicons

C7_DuplicateIdIsError == [][C7_DuplicateIdStep]_vars

\* The failed call came with an icon URL whose server would have answered.
C7_Witness ==
    /\ result.outcome = "assertion_error"
    /\ result.raised # ""
    /\ call.icon_url # None
    /\ Len(Entries) = 1

\* C8: no icon request is issued on the merge path or on the rejection
\* path, whatever icon_url was supplied.
C8_NoIconStep ==
    (IsAddStep /\ (DestinationPresent \/ OriginPresent)) =>
        /\ result'.icon_requests = 0
        /\ favicons' = favicons

C8_IconOnlyForNewDestination == [][C8_NoIconStep]_vars

\* A merge with an icon URL supplied, into an entry that has no icon.
C8_Witness ==
    /\ result.outcome = "merged"
    /\ call.icon_url # None
    /\ \E i \in DOMAIN Entries :
           /\ Entries[i].id = result.returned
           /\ Entries[i].destination_icon = None

IconsWereSaved ==
    \A i \in DOMAIN Entries :
        Entries[i].destination_icon # None =>
            /\ Entries[i].destination_icon = generate_icon_filename(Entries[i].destination)
            /\ Entries[i].destination_icon \in favicons

\* C9: on the new-destination path with no icon URL, a connection failure or
\* an HTTP error status the insert succeeds with destination_icon null; a
\* non-null destination_icon names an icon that a download saved.
C9_IconFailureStep ==
    /\ (/\ IsAddStep /\ ~OriginPresent /\ ~DestinationPresent /\ ~IdPresent
        /\ call'.icon_response \in {"no_request", "connection_error", "http_error"})
       => /\ result'.outcome = "added"
          /\ result'.returned = call'.new_entry.id
          /\ sites_file'.state = "complete"
          /\ Len(sites_file'.entries) = Len(Entries) + 1
          /\ \E i \in DOMAIN sites_file'.entries :
                 /\ sites_file'.entries[i] = call'.new_entry
                 /\ sites_file'.entries[i].destination_icon = None
    /\ IconsWereSaved'

C9_IconFailureNotFatal == [][C9_IconFailureStep]_vars

\* An entry was added although its icon's server answered with an error
\* status, next to an entry whose icon was saved.
C9_Witness ==
    /\ result.outcome = "added"
    /\ call.icon_response = "http_error"
    /\ \E i, k \in DOMAIN Entries :
           /\ Entries[i].id = result.returned
           /\ Entries[i].destination_icon = None
           /\ Entries[k].destination_icon # None

----------------------------------------------------------------------------
(* The file across runs of both scripts and failing writes, under Spec.    *)

\* C10: the dataset file is written atomically: once a write has succeeded,
\* a failure or crash at any step of an add_redirect_entry or
\* refresh_sites_json run, the write itself included, leaves the file on
\* disk equal to the content of its last successful write, never empty or
\* partially written.
C10_FileEqualsLastSuccessfulWrite ==
    last_written.state = "complete" =>
        /\ sites_file = last_written
        /\ sites_file.state # "partial"

\* C10, the part before the write: a step that changes the file is the final
\* write of a run, so a run that fails earlier leaves the file as it was.
C10_FileChangeStep ==
    sites_file' # sites_file =>
        /\ result'.outcome \in {"added", "merged", "refreshed", "write_error"}
        /\ result'.outcome # "write_error" =>
               (sites_file'.state = "complete" /\ last_written' = sites_file')

C10_OnlyTheFinalWriteChangesFile == [][C10_FileChangeStep]_vars

\* A refresh failed at its second request and the file still holds what the
\* last successful write left.
C10_Witness ==
    /\ result.outcome = "refresh_error"
    /\ call.op = "refresh"
    /\ sites_file.state = "complete"
    /\ Len(Entries) >= 1
    /\ sites_file = last_written

----------------------------------------------------------------------------
(* request_with_http_fallback (src/utils.py).                              *)

\* A raw URL is what the caller typed: an optional scheme prefix, then host
\* and path.  A normalised URL has a scheme.
SchemePrefixes == {"https://", "http://", "//", ""}
Hosts == {"a.example.org", "b.wiki.gg"}
Paths == {"/", "/wiki/Main_Page"}

RawUrls == {[prefix |-> x, host |-> h, path |-> q] : x \in SchemePrefixes, h \in Hosts, q \in Paths}

normalize_url_protocol(url) ==
    [scheme |-> IF url.prefix = "http://" THEN "http" ELSE "https",
     host |-> url.host, path |-> url.path]

\* What session.get does: it returns a response (whose status may be an
\* error status) or raises.  SSLError is a subclass of ConnectionError;
\* ReadTimeout is a RequestException that is neither.
GetAnswers == {"response_ok", "response_error", "SSLError", "ConnectionError", "ReadTimeout"}
Raises(answer) == answer \in {"SSLError", "ConnectionError", "ReadTimeout"}

\* The call from its first statement to the first session.get.
fallback_begin(raw_url) ==
    [op |-> "request_with_http_fallback", pc |-> "first", raw_url |-> raw_url,
     url |-> normalize_url_protocol(raw_url), requests |-> <<>>, answers |-> <<>>,
     closes |-> 0, raised |-> "", response |-> None]

\* Variant: the except clause retries whatever the scheme.
fallback_first_get_any_scheme(p, answer) ==
    LET sent == [p EXCEPT !.requests = Append(@, p.url), !.answers = Append(@, answer)]
    IN  IF answer \in {"SSLError", "ConnectionError"}
        THEN [sent EXCEPT !.closes = @ + 1, !.pc = "retry", !.url.scheme = "http"]
        ELSE IF Raises(answer)
        THEN [sent EXCEPT !.pc = "done", !.raised = answer]
        ELSE [sent EXCEPT !.pc = "done", !.response = answer]

\* Variant: the except clause names SSLError only.
fallback_first_get_ssl_only(p, answer) ==
    LET sent == [p EXCEPT !.requests = Append(@, p.url), !.answers = Append(@, answer)]
    IN  IF answer = "SSLError"
        THEN IF p.url.scheme # "http"
             THEN [sent EXCEPT !.closes = @ + 1, !.pc = "retry", !.url.scheme = "http"]
             ELSE [sent EXCEPT !.closes = @ + 1, !.pc = "done", !.raised = answer]
        ELSE IF Raises(answer)
        THEN [sent EXCEPT !.pc = "done", !.raised = answer]
        ELSE [sent EXCEPT !.pc = "done", !.response = answer]

\* The first session.get and the except clause up to the second get.
fallback_first_get(p, answer) ==
    LET sent == [p EXCEPT !.requests = Append(@, p.url), !.answers = Append(@, answer)]
    IN  IF answer \in {"SSLError", "ConnectionError"}
        THEN IF p.url.scheme # "http"
             THEN [sent EXCEPT !.closes = @ + 1, !.pc = "retry", !.url.scheme = "http"]
             ELSE [sent EXCEPT !.closes = @ + 1, !.pc = "done", !.raised = answer]
        ELSE IF Raises(answer)
        THEN [sent EXCEPT !.pc = "done", !.raised = answer]
        ELSE [sent EXCEPT !.pc = "done", !.response = answer]

\* The session.get inside the except clause: nothing catches what it raises.
fallback_retry_get(p, answer) ==
    LET sent == [p EXCEPT !.requests = Append(@, p.url), !.answers = Append(@, answer)]
    IN  IF Raises(answer)
        THEN [sent EXCEPT !.pc = "done", !.raised = answer]
        ELSE [sent EXCEPT !.pc = "done", !.response = answer]

FallbackCall(raw_url) ==
    /\ probe = NoProbe
    /\ probe' = fallback_begin(raw_url)
    /\ UNCHANGED dataset_vars

FallbackFirstGet(answer) ==
    /\ probe.op = "request_with_http_fallback"
    /\ probe.pc = "first"
    /\ probe' = fallback_first_get(probe, answer)
    /\ UNCHANGED dataset_vars

FallbackRetryGet(answer) ==
    /\ probe.op = "request_with_http_fallback"
    /\ probe.pc = "retry"
    /\ probe' = fallback_retry_get(probe, answer)
    /\ UNCHANGED dataset_vars

\* The call returns or raises to its caller.
ProbeEnds ==
    /\ probe # NoProbe
    /\ probe.pc = "done"
    /\ probe' = NoProbe
    /\ UNCHANGED dataset_vars

FallbackStart == \E raw_url \in RawUrls : FallbackCall(raw_url)
FallbackFirst == \E answer \in GetAnswers : FallbackFirstGet(answer)
FallbackRetry == \E answer \in GetAnswers : FallbackRetryGet(answer)

NextFallback == FallbackStart \/ FallbackFirst \/ FallbackRetry \/ ProbeEnds

SpecFallback == Init /\ [][NextFallback]_vars

InFallback == probe.op = "request_with_http_fallback"
FirstAnswer == IF Len(probe.answers) >= 1 THEN probe.answers[1] ELSE "none"
OverHttp(url) == [url EXCEPT !.scheme = "http"]

\* C11: a call issues at most two GET requests; after a TLS error on an
\* https URL it retries exactly once, over http with the same host and path,
\* and what the retry raises reaches the caller; after a TLS error on an http
\* URL the error reaches the caller with no retry.
C11_TlsFallbackOnce ==
    InFallback =>
        /\ Len(probe.requests) <= 2
        /\ FirstAnswer = "SSLError" =>
               IF probe.requests[1].scheme = "https"
               THEN /\ probe.pc = "retry" => Len(probe.requests) = 1
                    /\ probe.pc = "done" =>
                           /\ Len(probe.requests) = 2
                           /\ probe.requests[2] = OverHttp(probe.requests[1])
                           /\ Raises(probe.answers[2]) => probe.raised = probe.answers[2]
                           /\ ~Raises(probe.answers[2]) =>
                                  (probe.raised = "" /\ probe.response = probe.answers[2])
               ELSE /\ probe.pc = "done"
                    /\ Len(probe.requests) = 1
                    /\ probe.raised = "SSLError"

\* An https request failed in the TLS handshake and the http retry failed too.
C11_Witness ==
    /\ InFallback
    /\ probe.pc = "done"
    /\ probe.answers = <<"SSLError", "ConnectionError">>
    /\ probe.raised = "ConnectionError"
    /\ probe.requests[1].scheme = "https"

\* C12 as stated: after a connection failure of the first GET the request is
\* retried once before an error reaches the caller, whatever the scheme.
C12_ConnectionFailureAlwaysRetried ==
    (InFallback /\ FirstAnswer = "ConnectionError" /\ probe.pc = "done") =>
        Len(probe.requests) = 2

\* C12 amended: after a connection failure of the first GET the session is
\* closed; an https URL is retried once over http, an http URL is not retried
\* and the failure reaches the caller.
C12_ConnectionFailureFallsBackToHttp ==
    (InFallback /\ FirstAnswer = "ConnectionError") =>
        /\ probe.closes = 1
        /\ IF probe.requests[1].scheme = "https"
           THEN /\ probe.pc = "retry" => Len(probe.requests) = 1
                /\ probe.pc = "done" =>
                       /\ Len(probe.requests) = 2
                       /\ probe.requests[2] = OverHttp(probe.requests[1])
           ELSE /\ probe.pc = "done"
                /\ Len(probe.requests) = 1
                /\ probe.raised = "ConnectionError"

\* The connection to an http URL failed and the call ended after one request.
C12_Witness ==
    /\ InFallback
    /\ probe.pc = "done"
    /\ probe.answers = <<"ConnectionError">>
    /\ probe.requests[1].scheme = "http"
    /\ probe.raised = "ConnectionError"
    /\ probe.closes = 1

----------------------------------------------------------------------------
(* query_mediawiki_api (src/mediawiki_tools.py).                           *)

TooManyRequests == 429
SleepSeconds == 30

ApiUrls == {"https://a.example.org/w/api.php", "https://b.wiki.gg/api.php"}

\* The queries the callers of query_mediawiki_api send.
QueryParams == {"siteinfo", "siteinfo_namespaces", "recentchanges_latest"}

\* What session.get does with an API request: a response (status and the
\* top-level key of its JSON body) or an exception (status 0).
ApiResponses ==
    {[status |-> 200, body |-> b] : b \in {"query", "warnings", "error"}}
    \cup {[status |-> c, body |-> "html"] : c \in {TooManyRequests, 404, 500, 503}}

ApiAnswers ==
    ApiResponses \cup {[status |-> 0, body |-> e] : e \in {"ConnectionError", "ReadTimeout"}}

\* bool(response): False for a 4xx or 5xx status.
ResponseOk(response) == response.status < 400

query_begin(api_url, params) ==
    [op |-> "query_mediawiki_api", pc |-> "first", api_url |-> api_url, params |-> params,
     requests |-> <<>>, answers |-> <<>>, sleeps |-> 0, slept |-> 0,
     raised |-> "", returned |-> None]

\* From "if not response" to the return: the response in hand is final.
query_finish(p, response) ==
    IF ~ResponseOk(response)
    THEN [p EXCEPT !.pc = "done", !.raised = "HTTPError"]
    ELSE IF response.body = "error"
    THEN [p EXCEPT !.pc = "done", !.raised = "MediaWikiAPIError"]
    ELSE [p EXCEPT !.pc = "done", !.returned = "query"]

query_first_get(p, answer) ==
    LET sent == [p EXCEPT !.requests = Append(@, <<p.api_url, p.params>>),
                          !.answers = Append(@, answer)]
    IN  IF answer.status = 0
        THEN [sent EXCEPT !.pc = "done", !.raised = answer.body]
        ELSE IF answer.status = TooManyRequests
        THEN [sent EXCEPT !.pc = "sleep"]
        ELSE query_finish(sent, answer)

\* time.sleep(30)
query_sleep(p) ==
    [p EXCEPT !.pc = "retry", !.sleeps = @ + 1, !.slept = @ + SleepSeconds]

\* Variant: a 429 answer to the retry is slept on again.
query_retry_get_sleep_again(p, answer) ==
    LET sent == [p EXCEPT !.requests = Append(@, <<p.api_url, p.params>>),
                          !.answers = Append(@, answer)]
    IN  IF answer.status = 0
        THEN [sent EXCEPT !.pc = "done", !.raised = answer.body]
        ELSE IF answer.status = TooManyRequests
        THEN [sent EXCEPT !.pc = "sleep"]
        ELSE query_finish(sent, answer)

\* The second session.get: its response is final whatever its status.
query_retry_get(p, answer) ==
    LET sent == [p EXCEPT !.requests = Append(@, <<p.api_url, p.params>>),
                          !.answers = Append(@, answer)]
    IN  IF answer.status = 0
        THEN [sent EXCEPT !.pc = "done", !.raised = answer.body]
        ELSE query_finish(sent, answer)

InQuery == probe.op = "query_mediawiki_api"

QueryCall(api_url, params) ==
    /\ probe = NoProbe
    /\ probe' = query_begin(api_url, params)
    /\ UNCHANGED dataset_vars

QueryFirstGet(answer) ==
    /\ InQuery /\ probe.pc = "first"
    /\ probe' = query_first_get(probe, answer)
    /\ UNCHANGED dataset_vars

QuerySleep ==
    /\ InQuery /\ probe.pc = "sleep"
    /\ probe' = query_sleep(probe)
    /\ UNCHANGED dataset_vars

QueryRetryGet(answer) ==
    /\ InQuery /\ probe.pc = "retry"
    /\ probe' = query_retry_get(probe, answer)
    /\ UNCHANGED dataset_vars

QueryStart == \E api_url \in ApiUrls, params \in QueryParams : QueryCall(api_url, params)
QueryFirst == \E answer \in ApiAnswers : QueryFirstGet(answer)
QueryRetry == \E answer \in ApiAnswers : QueryRetryGet(answer)

NextQuery == QueryStart \/ QueryFirst \/ QuerySleep \/ QueryRetry \/ ProbeEnds

SpecQuery == Init /\ [][NextQuery]_vars

\* C13: a call sleeps at most once and sends at most two requests; a 429
\* answer to the first request causes one sleep of 30 seconds and one retry
\* of the same request, and a 429 answer to the retry raises an HTTP error
\* with no further sleep or request.
C13_OneSleepOneRetry ==
    InQuery =>
        /\ probe.sleeps <= 1
        /\ probe.slept = probe.sleeps * SleepSeconds
        /\ Len(probe.requests) <= 2
        /\ Len(probe.answers) >= 1 =>
               IF probe.answers[1].status = TooManyRequests
               THEN /\ probe.pc \in {"sleep", "retry", "done"}
                    /\ probe.pc = "sleep" => (probe.sleeps = 0 /\ Len(probe.requests) = 1)
                    /\ probe.pc = "retry" => (probe.sleeps = 1 /\ Len(probe.requests) = 1)
                    /\ probe.pc = "done" =>
                           /\ probe.sleeps = 1
                           /\ Len(probe.requests) = 2
                           /\ probe.requests[2] = probe.requests[1]
                           /\ probe.answers[2].status = TooManyRequests =>
                                  probe.raised = "HTTPError"
               ELSE /\ probe.pc = "done"
                    /\ probe.sleeps = 0
                    /\ Len(probe.requests) = 1

\* Two 429 answers in a row: one sleep, two requests, an HTTP error.
C13_Witness ==
    /\ InQuery
    /\ probe.pc = "done"
    /\ Len(probe.answers) = 2
    /\ probe.answers[1].status = TooManyRequests
    /\ probe.answers[2].status = TooManyRequests
    /\ probe.raised = "HTTPError"
    /\ probe.slept = SleepSeconds

----------------------------------------------------------------------------
(* profile_mediawiki_recentchanges (src/mediawiki_tools.py).               *)

\* Timestamps are days 1..MaxDay; the wiki answers at most PageSize rows per
\* request and a "continue" key while rows remain.
MaxDay == 4
PageSize == 2

\* latest_edit_timestamp = None
NoTimestamp == 0

Days == 1..MaxDay

Maximum(S) == CHOOSE t \in S : \A u \in S : u <= t

\* The rows of a set of edits, newest first, as the API lists them.
RECURSIVE NewestFirst(_)
NewestFirst(S) ==
    IF S = {} THEN <<>> ELSE <<Maximum(S)>> \o NewestFirst(S \ {Maximum(S)})

\* The wiki's answer to list=recentchanges: the qualifying edits (not by
\* bots, in the content namespaces, of the listed types) back to rcend, all
\* of them without rcend.
RecentChanges(edits, rcend) ==
    NewestFirst({t \in edits : rcend = NoTimestamp \/ t >= rcend})

rc_begin(edits, window_end) ==
    [op |-> "profile_mediawiki_recentchanges", pc |-> "window", edits |-> edits,
     window_end |-> window_end, queries |-> <<>>, rows |-> <<>>,
     edit_count |-> 0, latest_edit_timestamp |-> NoTimestamp, raised |-> ""]

\* Variant: an empty window ends the call with no timestamp.
rc_after_window_no_fallback(p) ==
    IF p.rows # <<>>
    THEN [p EXCEPT !.pc = "done", !.edit_count = Len(p.rows),
                   !.latest_edit_timestamp = Maximum(Range(p.rows))]
    ELSE [p EXCEPT !.pc = "done", !.edit_count = 0]

\* len(rc_df) and the choice between the in-window maximum and the fallback.
rc_after_window(p) ==
    IF p.rows # <<>>
    THEN [p EXCEPT !.pc = "done", !.edit_count = Len(p.rows),
                   !.latest_edit_timestamp = Maximum(Range(p.rows))]
    ELSE [p EXCEPT !.pc = "fallback", !.edit_count = 0]

\* One request of the continued in-window query.
rc_window_query(p, fails) ==
    LET all == RecentChanges(p.edits, p.window_end)
        from == Len(p.rows) + 1
        to == IF Len(p.rows) + PageSize < Len(all) THEN Len(p.rows) + PageSize ELSE Len(all)
        asked == [p EXCEPT !.queries = Append(@, [rcend |-> p.window_end, rclimit |-> "max",
                                                   continue |-> Len(p.rows)])]
        got == [asked EXCEPT !.rows = @ \o SubSeq(all, from, to)]
    IN  IF fails THEN [asked EXCEPT !.pc = "done", !.raised = "HTTPError"]
        ELSE IF to < Len(all) THEN got
        ELSE rc_after_window(got)

\* The query without rcend and with rclimit 1.
rc_fallback_query(p, fails) ==
    LET all == RecentChanges(p.edits, NoTimestamp)
        rc_extended == SubSeq(all, 1, IF Len(all) < 1 THEN Len(all) ELSE 1)
        asked == [p EXCEPT !.queries = Append(@, [rcend |-> NoTimestamp, rclimit |-> "1",
                                                   continue |-> 0])]
    IN  IF fails THEN [asked EXCEPT !.pc = "done", !.raised = "HTTPError"]
        ELSE IF rc_extended # <<>>
        THEN [asked EXCEPT !.pc = "done",
                           !.latest_edit_timestamp = Maximum(Range(rc_extended))]
        ELSE [asked EXCEPT !.pc = "done", !.latest_edit_timestamp = NoTimestamp]

InRc == probe.op = "profile_mediawiki_recentchanges"

RcCall(edits, window_end) ==
    /\ probe = NoProbe
    /\ probe' = rc_begin(edits, window_end)
    /\ UNCHANGED dataset_vars

RcWindowQuery(fails) ==
    /\ InRc /\ probe.pc = "window"
    /\ probe' = rc_window_query(probe, fails)
    /\ UNCHANGED dataset_vars

RcFallbackQuery(fails) ==
    /\ InRc /\ probe.pc = "fallback"
    /\ probe' = rc_fallback_query(probe, fails)
    /\ UNCHANGED dataset_vars

RcStart == \E edits \in SUBSET Days, window_end \in Days : RcCall(edits, window_end)
RcWindow == \E fails \in BOOLEAN : RcWindowQuery(fails)
RcFallback == \E fails \in BOOLEAN : RcFallbackQuery(fails)

NextRc == RcStart \/ RcWindow \/ RcFallback \/ ProbeEnds

SpecRc == Init /\ [][NextRc]_vars

InWindow == {t \in probe.edits : t >= probe.window_end}
FallbackQueries == {k \in DOMAIN probe.queries : probe.queries[k].rcend = NoTimestamp}

\* C14: in a call that returns, an empty window means exactly one more
\* query, of one row and without an end date, a recent_edit_count of 0 and a
\* latest_edit_timestamp that is null only if the wiki has no qualifying
\* edit at all; a window holding a row means no such query and the maximum
\* in-window timestamp.
C14_FallbackFindsLatestEdit ==
    (InRc /\ probe.pc = "done" /\ probe.raised = "") =>
        IF InWindow = {}
        THEN /\ Cardinality(FallbackQueries) = 1
             /\ \A k \in FallbackQueries : probe.queries[k].rclimit = "1"
             /\ probe.edit_count = 0
             /\ probe.latest_edit_timestamp = NoTimestamp <=> probe.edits = {}
             /\ probe.edits # {} => probe.latest_edit_timestamp = Maximum(probe.edits)
        ELSE /\ FallbackQueries = {}
             /\ probe.latest_edit_timestamp = Maximum(InWindow)

\* The window was empty, the wiki had older edits and the fallback found the
\* newest of them.
C14_Witness ==
    /\ InRc /\ probe.pc = "done" /\ probe.raised = ""
    /\ InWindow = {}
    /\ Cardinality(probe.edits) >= 2
    /\ probe.latest_edit_timestamp = Maximum(probe.edits)
    /\ Len(probe.queries) = 2

----------------------------------------------------------------------------
(* The platform profilers (src/mediawiki_tools.py, src/fextralife_tools.py, *)
(* src/dokuwiki_tools.py, src/wikidot_tools.py, src/minmax_tools.py).       *)

\* Language codes are sequences of characters of at most MaxLangLen.
MaxLangLen == 3
\* A Recent Changes feed holds at most MaxFeed entries.
MaxFeed == 2

\* active_users = None, recent_edit_count = None
NoCount == -1

LangChars == {"e", "n", "-"}
Langs == UNION {[1..n -> LangChars] : n \in 1..MaxLangLen}

\* s.split(sep)[0]
RECURSIVE split_first(_, _)
split_first(s, sep) ==
    IF s = <<>> \/ Head(s) = sep THEN <<>> ELSE <<Head(s)>> \o split_first(Tail(s), sep)

Authors == {"alice", "Anonymous"}
RcEntries(actions) == [published : Days, action : actions, author : Authors]
Feeds(actions, longest) == UNION {[1..n -> RcEntries(actions)] : n \in 0..longest}

Minimum(S) == CHOOSE t \in S : \A u \in S : t <= u

\* str(series.max()): the maximum of an empty series is NaT.
str_max(S) == IF S = {} THEN "NaT" ELSE ToString(Maximum(S))

ActivityKeys == {"content_pages", "active_users", "recent_edit_count", "latest_edit_timestamp"}

Statistics == [articles : 0..1, activeusers : 0..1]

\* Runs the Recent Changes queries of a call to its end, every request
\* answered.
RECURSIVE rc_result(_)
rc_result(p) ==
    IF p.pc = "done" THEN p
    ELSE IF p.pc = "window" THEN rc_result(rc_window_query(p, FALSE))
    ELSE rc_result(rc_fallback_query(p, FALSE))

extract_metadata_from_siteinfo(lang) ==
    [full_language |-> lang, language |-> split_first(lang, "-"), platform |-> "mediawiki"]

\* Variant: every edit of the wiki is counted, old ones included.
profile_mediawiki_wiki_all_edits(lang, full_profile, statistics, edits, window_end) ==
    LET wiki_metadata == extract_metadata_from_siteinfo(lang)
        rc == rc_result(rc_begin(edits, window_end))
    IN  IF ~full_profile THEN [raised |-> "", wiki_metadata |-> wiki_metadata]
        ELSE [raised |-> "",
              wiki_metadata |-> wiki_metadata @@
                  [content_pages |-> statistics.articles,
                   active_users |-> statistics.activeusers,
                   recent_edit_count |-> Cardinality(edits),
                   latest_edit_timestamp |->
                       IF rc.latest_edit_timestamp # NoTimestamp
                       THEN ToString(rc.latest_edit_timestamp) ELSE None]]

profile_mediawiki_wiki(lang, full_profile, statistics, edits, window_end) ==
    LET wiki_metadata == extract_metadata_from_siteinfo(lang)
        rc == rc_result(rc_begin(edits, window_end))
    IN  IF ~full_profile THEN [raised |-> "", wiki_metadata |-> wiki_metadata]
        ELSE [raised |-> "",
              wiki_metadata |-> wiki_metadata @@
                  [content_pages |-> statistics.articles,
                   active_users |-> statistics.activeusers,
                   recent_edit_count |-> rc.edit_count,
                   latest_edit_timestamp |->
                       IF rc.latest_edit_timestamp # NoTimestamp
                       THEN ToString(rc.latest_edit_timestamp) ELSE None]]

extract_metadata_from_fextralife_page(lang) ==
    [full_language |-> lang, language |-> lang, platform |-> "fextralife"]

FextralifeContentEditActions == {"Page_Edited", "Page_Created", "Page_Version_Restored"}
FextralifeActions == {"Page_Edited", "File_Uploaded"}

profile_fextralife_wiki(lang, full_profile, sitemap, rc_df, window_end) ==
    LET wiki_metadata == extract_metadata_from_fextralife_page(lang)
        recent == {i \in DOMAIN rc_df : rc_df[i].published > window_end}
        content == {i \in DOMAIN rc_df : rc_df[i].action \in FextralifeContentEditActions}
    IN  IF ~full_profile THEN [raised |-> "", wiki_metadata |-> wiki_metadata]
        ELSE [raised |-> "",
              wiki_metadata |-> wiki_metadata @@
                  [content_pages |-> Len(sitemap),
                   active_users |-> Cardinality({rc_df[i].author : i \in recent}),
                   recent_edit_count |-> Cardinality(recent \cap content),
                   latest_edit_timestamp |-> str_max({rc_df[i].published : i \in content})]]

DokuwikiNonContentNamespaces == {"user", "editors", "test", "sandbox", "playground", "wiki"}
DokuwikiActions == {"edit", "delete"}

\* Variant: a failed Recent Changes request ends the call after
\* content_pages.
profile_dokuwiki_wiki_without_nulls(lang, full_profile, sitemap, rc_df, window_end) ==
    LET wiki_metadata == [full_language |-> lang, language |-> split_first(lang, "-"),
                          platform |-> "dokuwiki"]
        counted == wiki_metadata @@
            [content_pages |-> Cardinality({i \in DOMAIN sitemap :
                                               sitemap[i] \notin DokuwikiNonContentNamespaces})]
        recent == {i \in DOMAIN rc_df : rc_df[i].published > window_end}
        content == {i \in DOMAIN rc_df : rc_df[i].action # "delete"}
    IN  IF ~full_profile THEN [raised |-> "", wiki_metadata |-> wiki_metadata]
        ELSE IF rc_df = <<>> THEN [raised |-> "", wiki_metadata |-> counted]
        ELSE [raised |-> "",
              wiki_metadata |-> counted @@
                  [active_users |-> Cardinality({rc_df[i].author : i \in recent} \ {"Anonymous"}),
                   recent_edit_count |-> Cardinality(recent \cap content),
                   latest_edit_timestamp |-> str_max({rc_df[i].published : i \in content})]]

\* An empty feed is the rc_df of None that retrieve_dokuwiki_recentchanges
\* returns; every entry is of page type "page" in a content namespace.
profile_dokuwiki_wiki(lang, full_profile, sitemap, rc_df, window_end) ==
    LET wiki_metadata == [full_language |-> lang, language |-> split_first(lang, "-"),
                          platform |-> "dokuwiki"]
        counted == wiki_metadata @@
            [content_pages |-> Cardinality({i \in DOMAIN sitemap :
                                               sitemap[i] \notin DokuwikiNonContentNamespaces})]
        recent == {i \in DOMAIN rc_df : rc_df[i].published > window_end}
        content == {i \in DOMAIN rc_df : rc_df[i].action # "delete"}
    IN  IF ~full_profile THEN [raised |-> "", wiki_metadata |-> wiki_metadata]
        ELSE IF rc_df = <<>>
        THEN [raised |-> "",
              wiki_metadata |-> counted @@
                  [active_users |-> NoCount, recent_edit_count |-> NoCount,
                   latest_edit_timestamp |-> None]]
        ELSE [raised |-> "",
              wiki_metadata |-> counted @@
                  [active_users |-> Cardinality({rc_df[i].author : i \in recent} \ {"Anonymous"}),
                   recent_edit_count |-> Cardinality(recent \cap content),
                   latest_edit_timestamp |-> str_max({rc_df[i].published : i \in content})]]

WikidotNonContentNamespaces == {"system", "poll", "forum", "nav", "search", "admin", "info", "deleted", "random", "more-by", "workbench", "component", "fragment", "theme", "attribution"}
WikidotNoncontentEditActions == {"page move/rename", "file action"}
WikidotActions == {"source change", "file action"}
WikidotUnregistered == {"Anonymous", "(account deleted)"}

\* Variant: a feed that does not reach the window start nulls only the edit
\* count.
wikidot_activity_edits_only(rc_df, window_end) ==
    LET recent == {i \in DOMAIN rc_df : rc_df[i].published > window_end}
        truncated == rc_df # <<>> /\ Minimum({rc_df[i].published : i \in DOMAIN rc_df}) > window_end
    IN  [recent_edit_count |-> IF truncated THEN NoCount
                               ELSE Cardinality({i \in recent : rc_df[i].action \notin WikidotNoncontentEditActions}),
         active_users |-> Cardinality({rc_df[i].author : i \in recent} \ WikidotUnregistered)]

\* recent_edit_count and active_user_count of profile_wikidot_wiki.
wikidot_activity(rc_df, window_end) ==
    LET recent == {i \in DOMAIN rc_df : rc_df[i].published > window_end}
    IN  IF rc_df # <<>> /\ Minimum({rc_df[i].published : i \in DOMAIN rc_df}) > window_end
        THEN [recent_edit_count |-> NoCount, active_users |-> NoCount]
        ELSE [recent_edit_count |->
                  Cardinality({i \in recent : rc_df[i].action \notin WikidotNoncontentEditActions}),
              active_users |->
                  Cardinality({rc_df[i].author : i \in recent} \ WikidotUnregistered)]

\* A feed without entries gives a frame without columns, and its "id" column
\* is a KeyError.
retrieve_wikidot_recentchanges(feed) ==
    IF feed = <<>> THEN [raised |-> "KeyError", rc_df |-> <<>>]
    ELSE [raised |-> "", rc_df |-> feed]

profile_wikidot_wiki(lang, full_profile, sitemap, feed, window_end) ==
    LET wiki_metadata == [full_language |-> lang, language |-> lang, platform |-> "wikidot"]
        rc == retrieve_wikidot_recentchanges(feed)
        rc_df == rc.rc_df
        activity == wikidot_activity(rc_df, window_end)
    IN  IF ~full_profile THEN [raised |-> "", wiki_metadata |-> wiki_metadata]
        ELSE IF rc.raised # "" THEN [raised |-> rc.raised, wiki_metadata |-> wiki_metadata]
        ELSE [raised |-> "",
              wiki_metadata |-> wiki_metadata @@
                  [content_pages |-> Cardinality({i \in DOMAIN sitemap :
                                                     sitemap[i] \notin WikidotNonContentNamespaces}),
                   active_users |-> activity.active_users,
                   recent_edit_count |-> activity.recent_edit_count,
                   latest_edit_timestamp |->
                       str_max({rc_df[i].published :
                                   i \in {j \in DOMAIN rc_df :
                                             rc_df[j].action \notin WikidotNoncontentEditActions}})]]

profile_minmax_wiki(lang, full_profile, all_pages) ==
    LET wiki_metadata == [full_language |-> lang, language |-> lang, platform |-> "minmax"]
    IN  IF ~full_profile THEN [raised |-> "", wiki_metadata |-> wiki_metadata]
        ELSE [raised |-> "",
              wiki_metadata |-> wiki_metadata @@
                  [content_pages |-> Len(all_pages), active_users |-> NoCount,
                   recent_edit_count |-> NoCount, latest_edit_timestamp |-> None]]

\* Page lists: one page outside the content namespaces, with or without a
\* content page before it.
Sitemaps == {<<"system">>, <<"", "system">>}
DokuwikiSitemaps == {<<"wiki">>, <<"", "wiki">>}

Profiled(op, full_profile, rc_df, window_end, outcome) ==
    [op |-> op, pc |-> "done", full_profile |-> full_profile, rc_df |-> rc_df,
     window_end |-> window_end, raised |-> outcome.raised,
     wiki_metadata |-> outcome.wiki_metadata]

MediawikiProfile(lang, full_profile, statistics, edits, window_end) ==
    /\ probe = NoProbe
    /\ probe' = Profiled("profile_mediawiki_wiki", full_profile, NewestFirst(edits), window_end,
                         profile_mediawiki_wiki(lang, full_profile, statistics, edits, window_end))
    /\ UNCHANGED dataset_vars

FextralifeProfile(lang, full_profile, sitemap, rc_df, window_end) ==
    /\ probe = NoProbe
    /\ probe' = Profiled("profile_fextralife_wiki", full_profile, rc_df, window_end,
                         profile_fextralife_wiki(lang, full_profile, sitemap, rc_df, window_end))
    /\ UNCHANGED dataset_vars

DokuwikiProfile(lang, full_profile, sitemap, rc_df, window_end) ==
    /\ probe = NoProbe
    /\ probe' = Profiled("profile_dokuwiki_wiki", full_profile, rc_df, window_end,
                         profile_dokuwiki_wiki(lang, full_profile, sitemap, rc_df, window_end))
    /\ UNCHANGED dataset_vars

WikidotProfile(lang, full_profile, sitemap, feed, window_end) ==
    /\ probe = NoProbe
    /\ probe' = Profiled("profile_wikidot_wiki", full_profile, feed, window_end,
                         profile_wikidot_wiki(lang, full_profile, sitemap, feed, window_end))
    /\ UNCHANGED dataset_vars

MinmaxProfile(lang, full_profile, all_pages) ==
    /\ probe = NoProbe
    /\ probe' = Profiled("profile_minmax_wiki", full_profile, <<>>, NoTimestamp,
                         profile_minmax_wiki(lang, full_profile, all_pages))
    /\ UNCHANGED dataset_vars

\* Wikidot profiles over every feed of up to MaxFeed entries.
WikidotRun == probe = NoProbe /\ \E full_profile \in BOOLEAN, sitemap \in Sitemaps, feed \in Feeds(WikidotActions, MaxFeed), window_end \in Days : WikidotProfile(<<"e", "n">>, full_profile, sitemap, feed, window_end)

NextWikidot == WikidotRun \/ ProbeEnds

SpecWikidot == Init /\ [][NextWikidot]_vars

\* Profiles of the five platforms over every language code.
MediawikiRun == probe = NoProbe /\ \E lang \in Langs, full_profile \in BOOLEAN, statistics \in Statistics, edits \in SUBSET Days, window_end \in Days : MediawikiProfile(lang, full_profile, statistics, edits, window_end)
FextralifeRun == probe = NoProbe /\ \E lang \in Langs, full_profile \in BOOLEAN, sitemap \in Sitemaps, rc_df \in Feeds(FextralifeActions, 1), window_end \in Days : FextralifeProfile(lang, full_profile, sitemap, rc_df, window_end)
DokuwikiRun == probe = NoProbe /\ \E lang \in Langs, full_profile \in BOOLEAN, sitemap \in DokuwikiSitemaps, rc_df \in Feeds(DokuwikiActions, 1), window_end \in Days : DokuwikiProfile(lang, full_profile, sitemap, rc_df, window_end)
WikidotLangRun == probe = NoProbe /\ \E lang \in Langs, full_profile \in BOOLEAN, sitemap \in Sitemaps, feed \in Feeds(WikidotActions, 1), window_end \in Days : WikidotProfile(lang, full_profile, sitemap, feed, window_end)
MinmaxRun == probe = NoProbe /\ \E lang \in Langs, full_profile \in BOOLEAN, all_pages \in Sitemaps : MinmaxProfile(lang, full_profile, all_pages)

NextProfilers == MediawikiRun \/ FextralifeRun \/ DokuwikiRun \/ WikidotLangRun \/ MinmaxRun \/ ProbeEnds

SpecProfilers == Init /\ [][NextProfilers]_vars

ProfilerOps == {"profile_mediawiki_wiki", "profile_fextralife_wiki", "profile_dokuwiki_wiki", "profile_wikidot_wiki", "profile_minmax_wiki"}
Returned == probe.op \in ProfilerOps /\ probe.pc = "done" /\ probe.raised = ""
PublishedIn(rc_df) == {rc_df[i].published : i \in DOMAIN rc_df}
RecentIn(rc_df, window_end) == {i \in DOMAIN rc_df : rc_df[i].published > window_end}

\* C15: in a full Wikidot profile, a feed whose oldest entry is newer than
\* the window start gives a null active_users and a null recent_edit_count;
\* any other feed gives both as counts over the entries inside the window;
\* the two are null together or not at all.
C15_WikidotCountsNullTogether ==
    (Returned /\ probe.op = "profile_wikidot_wiki" /\ probe.full_profile) =>
        LET m == probe.wiki_metadata
            recent == RecentIn(probe.rc_df, probe.window_end)
        IN  /\ m.active_users = NoCount <=> m.recent_edit_count = NoCount
            /\ IF Minimum(PublishedIn(probe.rc_df)) > probe.window_end
               THEN m.active_users = NoCount /\ m.recent_edit_count = NoCount
               ELSE /\ m.recent_edit_count =
                          Cardinality({i \in recent :
                              probe.rc_df[i].action \notin WikidotNoncontentEditActions})
                    /\ m.active_users =
                          Cardinality({probe.rc_df[i].author : i \in recent} \ WikidotUnregistered)

\* A full Wikidot profile whose feed lies wholly inside the window.
C15_Witness ==
    /\ Returned /\ probe.op = "profile_wikidot_wiki" /\ probe.full_profile
    /\ Len(probe.rc_df) = 2
    /\ Minimum(PublishedIn(probe.rc_df)) > probe.window_end
    /\ probe.wiki_metadata.active_users = NoCount

\* C16: a profiler's record has all four activity fields when the profile is
\* full and none of them when it is not.
C16_ActivityFieldsAllOrNone ==
    Returned =>
        IF probe.full_profile
        THEN ActivityKeys \subseteq DOMAIN probe.wiki_metadata
        ELSE ActivityKeys \cap DOMAIN probe.wiki_metadata = {}

\* A full DokuWiki profile whose Recent Changes request gave nothing.
C16_Witness ==
    /\ Returned /\ probe.op = "profile_dokuwiki_wiki" /\ probe.full_profile
    /\ probe.rc_df = <<>>
    /\ ActivityKeys \subseteq DOMAIN probe.wiki_metadata

\* C17: in every profiler's record, language is the part of full_language
\* before its first hyphen, and full_language itself when it has none.
C17_LanguageIsFullLanguageBeforeHyphen ==
    Returned =>
        probe.wiki_metadata.language = split_first(probe.wiki_metadata.full_language, "-")

\* The MediaWiki and DokuWiki profilers do cut the code at its first hyphen.
C17_SplittingProfilersCutAtHyphen ==
    (Returned /\ probe.op \in {"profile_mediawiki_wiki", "profile_dokuwiki_wiki"}) =>
        probe.wiki_metadata.language = split_first(probe.wiki_metadata.full_language, "-")

\* A Wikidot record whose language still holds the hyphen.
C17_Witness ==
    /\ Returned /\ probe.op = "profile_wikidot_wiki"
    /\ probe.wiki_metadata.full_language = <<"e", "-", "n">>
    /\ probe.wiki_metadata.language = <<"e", "-", "n">>

----------------------------------------------------------------------------
(* determine_wiki_software (src/scrapewiki.py).                            *)

\* Strings are sequences of pieces; an attribute is <<>> when the element or
\* the attribute is missing and <<value>> otherwise.
startswith(s, prefix) == Len(s) >= Len(prefix) /\ SubSeq(s, 1, Len(prefix)) = prefix
endswith(s, suffix) == Len(s) >= Len(suffix) /\ SubSeq(s, Len(s) - Len(suffix) + 1, Len(s)) = suffix

Generators == {<<"MediaWiki", " 1.39.0">>, <<"DokuWiki">>, <<"Powered by ", "MediaWiki">>}
\* og:url values: a URL is its host and its path; a relative URL has no host.
MetaUrls == {[netloc |-> <<"eldenring.wiki.", "fextralife.com">>, path |-> "/"], [netloc |-> <<"c.miraheze.org">>, path |-> "/wiki/Main"], [netloc |-> <<"fextralife.com", ".example.org">>, path |-> "/"], [netloc |-> <<>>, path |-> "/wiki/Main"]}
BodyClasses == {<<"mediawiki", "ltr">>, <<"skin-mediawiki">>}

Optional(S) == {<<>>} \cup {<<x>> : x \in S}

ParsedHtml == [generator : Optional(Generators), meta_url : Optional(MetaUrls), body_class : Optional(BodyClasses), content_elem : BOOLEAN]

\* urlparse(meta_url).hostname is None for a URL without a host, and
\* None.endswith is an AttributeError.
determine_wiki_software(parsed_html) ==
    LET generator == parsed_html.generator
        meta_url == parsed_html.meta_url
        body_class == parsed_html.body_class
    IN  IF generator # <<>> /\ startswith(generator[1], <<"MediaWiki">>)
        THEN [raised |-> "", wiki_software |-> "MEDIAWIKI"]
        ELSE IF meta_url # <<>> /\ meta_url[1].netloc = <<>>
        THEN [raised |-> "AttributeError", wiki_software |-> None]
        ELSE IF meta_url # <<>> /\ endswith(meta_url[1].netloc, <<"fextralife.com">>)
        THEN [raised |-> "", wiki_software |-> "FEXTRALIFE"]
        ELSE IF body_class # <<>> /\ \E k \in DOMAIN body_class[1] : body_class[1][k] = "mediawiki"
        THEN [raised |-> "", wiki_software |-> "MEDIAWIKI"]
        ELSE IF parsed_html.content_elem
        THEN [raised |-> "", wiki_software |-> "MEDIAWIKI"]
        ELSE [raised |-> "", wiki_software |-> None]

DetermineSoftware(parsed_html) ==
    /\ probe = NoProbe
    /\ probe' = [op |-> "determine_wiki_software", pc |-> "done", parsed_html |-> parsed_html,
                 raised |-> determine_wiki_software(parsed_html).raised,
                 wiki_software |-> determine_wiki_software(parsed_html).wiki_software]
    /\ UNCHANGED dataset_vars

DetermineRun == probe = NoProbe /\ \E parsed_html \in ParsedHtml : DetermineSoftware(parsed_html)

NextSoftware == DetermineRun \/ ProbeEnds

SpecSoftware == Init /\ [][NextSoftware]_vars

Determined == probe.op = "determine_wiki_software" /\ probe.pc = "done"
GeneratorRule == probe.parsed_html.generator # <<>> /\ startswith(probe.parsed_html.generator[1], <<"MediaWiki">>)
HostRule == probe.parsed_html.meta_url # <<>> /\ endswith(probe.parsed_html.meta_url[1].netloc, <<"fextralife.com">>)
BodyClassRule == probe.parsed_html.body_class # <<>> /\ "mediawiki" \in Range(probe.parsed_html.body_class[1])
ContentRule == probe.parsed_html.content_elem
FirstMatch == IF GeneratorRule THEN "MEDIAWIKI" ELSE IF HostRule THEN "FEXTRALIFE" ELSE IF BodyClassRule \/ ContentRule THEN "MEDIAWIKI" ELSE None
HostlessMetaUrl == probe.parsed_html.meta_url # <<>> /\ probe.parsed_html.meta_url[1].netloc = <<>>

\* C18: determine_wiki_software returns the platform of the first rule that
\* matches, in the order generator, og:url host, body class and content
\* element, and returns "unknown" normally when none matches.
C18_FirstMatchOrUnknown ==
    Determined => probe.raised = "" /\ probe.wiki_software = FirstMatch

\* Every call that returns gives the first match, and the only calls that do
\* not return are those that reach an og:url without a host.
C18_FirstMatchWhenItReturns ==
    Determined =>
        /\ probe.raised = "" => probe.wiki_software = FirstMatch
        /\ probe.raised # "" <=> (~GeneratorRule /\ HostlessMetaUrl)

\* A page on which no rule matches and whose og:url is relative: the call
\* raises.
C18_Witness ==
    /\ Determined /\ FirstMatch = None
    /\ HostlessMetaUrl
    /\ probe.raised = "AttributeError"

\* A fextralife og:url wins over a mediawiki body class.
C18_HostBeforeBodyClass ==
    /\ Determined /\ ~GeneratorRule /\ HostRule /\ BodyClassRule
    /\ probe.wiki_software = "FEXTRALIFE"

----------------------------------------------------------------------------
(* generate_redirect_entry called on its own (src/addredirect.py).          *)

\* hostname.split('.')[0].replace("-", "") for the hostnames of the model.
extract_topic_from_url(wiki_url) ==
    IF wiki_url = "a.fandom.com" THEN "a"
    ELSE IF wiki_url = "c.fandom.com" THEN "c"
    ELSE IF wiki_url = "d.fandom.com" THEN "d"
    ELSE IF wiki_url = "e.fandom.com" THEN "e"
    ELSE "www"

generate_entry_id(language, origin_url) == language \o "-" \o extract_topic_from_url(origin_url)

Protocols == {"http", "https"}
EntryIdArguments == Range(IdPool) \cup {None}

GenerateEntry(origin_site_metadata, destination_site_metadata, entry_id) ==
    /\ probe = NoProbe
    /\ probe' = [op |-> "generate_redirect_entry", pc |-> "done",
                 origin_site_metadata |-> origin_site_metadata,
                 destination_site_metadata |-> destination_site_metadata,
                 entry_id |-> entry_id,
                 raised |-> generate_redirect_entry(origin_site_metadata, destination_site_metadata, entry_id).raised,
                 entry |-> generate_redirect_entry(origin_site_metadata, destination_site_metadata, entry_id).entry]
    /\ UNCHANGED dataset_vars

GenerateRun == probe = NoProbe /\ \E o \in DOMAIN OriginPool, d \in DOMAIN DestPool, po \in Protocols, pd \in Protocols, entry_id \in EntryIdArguments : GenerateEntry(WikiMetadata(OriginNames[o], OriginPool[o], po), WikiMetadata(DestNames[d], DestPool[d], pd), entry_id)

NextEntry == GenerateRun \/ ProbeEnds

SpecEntry == Init /\ [][NextEntry]_vars

Generated == probe.op = "generate_redirect_entry" /\ probe.pc = "done"

\* C19: a call of generate_redirect_entry without an id does not fail and
\* returns an entry whose id is the destination's language, a hyphen and the
\* topic of the origin's hostname.
C19_IdDerivedWithoutFailure ==
    (Generated /\ probe.entry_id = None) =>
        /\ probe.raised = ""
        /\ probe.entry.id = generate_entry_id(probe.destination_site_metadata.language,
                                              probe.origin_site_metadata.base_url)

\* A call without an id that ended in KeyError.
C19_Witness ==
    /\ Generated /\ probe.entry_id = None
    /\ probe.raised = "KeyError"

\* With an id the call returns an entry of that id.
C19_GivenIdIsKept ==
    (Generated /\ probe.entry_id # None) =>
        probe.raised = "" /\ probe.entry.id = probe.entry_id

----------------------------------------------------------------------------
(* A refresh run over a dataset that add runs have written.                 *)

\* The file and the icons after a sequence of add runs that all wrote
\* through, each with its icon downloaded.
RECURSIVE AfterAdds(_)
AfterAdds(new_entries) ==
    IF new_entries = <<>> THEN [file |-> MissingFile, favicons |-> {}]
    ELSE LET before == AfterAdds(SubSeq(new_entries, 1, Len(new_entries) - 1))
             new_entry == new_entries[Len(new_entries)]
             run == add_redirect_entry(before.file, before.favicons, new_entry,
                                       IconUrlOf(new_entry), "ok", NoFault)
         IN  [file |-> run.file, favicons |-> run.favicons]

\* Datasets of two add runs: the first origin to the first destination, then
\* that origin again or the next one, to any destination under any id.
RefreshDatasets ==
    {AfterAdds(<<generate_redirect_entry(OriginMeta(1), DestMeta(1), IdPool[1]).entry,
                 generate_redirect_entry(OriginMeta(o), DestMeta(d), id).entry>>) :
        o \in {1, 2}, d \in 1..NumDests, id \in Ids}

\* The add runs have been made and one run is left.
InitRefresh ==
    /\ \E dataset \in RefreshDatasets :
           /\ sites_file = dataset.file
           /\ favicons = dataset.favicons
           /\ last_written = dataset.file
    /\ call = NoCall
    /\ result = NoResult
    /\ mem = NoMem
    /\ runs = MaxRuns - 1
    /\ probe = NoProbe

NextRefresh == RefreshStart \/ RefreshStep \/ RefreshEnd \/ RunExits

SpecRefresh == InitRefresh /\ [][NextRefresh]_vars

\* Same entries in the same places, each with its id, its number of origins
\* and its icon filename.
SameShape(before, after) ==
    /\ Len(after) = Len(before)
    /\ \A i \in DOMAIN before :
           /\ after[i].id = before[i].id
           /\ Len(after[i].origins) = Len(before[i].origins)
           /\ Get(after[i], "destination_icon") = Get(before[i], "destination_icon")

\* No origin but the one at place <<i, j>> has changed.
OtherOriginsKept(before, after, i, j) ==
    \A k \in DOMAIN before : \A l \in DOMAIN before[k].origins :
        <<k, l>> # <<i, j>> => after[k].origins[l] = before[k].origins[l]

C20_Step ==
    (call.op = "refresh" /\ result.outcome = "running") =>
        /\ result'.outcome = "running" =>
               /\ sites_file' = sites_file
               /\ SameShape(mem.list, mem'.list)
               /\ OtherOriginsKept(mem.list, mem'.list,
                                   Sites(mem.list)[mem.request][1],
                                   Sites(mem.list)[mem.request][2])
        /\ result'.outcome = "refresh_error" => sites_file' = sites_file
        /\ result'.outcome = "refreshed" =>
               /\ sites_file'.state = "complete"
               /\ SameShape(sites_file.entries, sites_file'.entries)
               /\ SameShape(mem.list, sites_file'.entries)

\* C20: a refresh run neither deletes, adds nor moves entries, and leaves to
\* every entry its id, its origins in their number and places and its
\* destination_icon filename, whatever the profiled sites answer: each site
\* step keeps this in memory and the final write puts it on file.
C20_RefreshKeepsShape == [][C20_Step]_vars

\* A refresh has written an entry of two origins whose destination answered
\* over http and whose icon filename is still there.
C20_Witness ==
    /\ call # NoCall /\ call.op = "refresh" /\ result.outcome = "refreshed"
    /\ \E i \in DOMAIN sites_file.entries :
           /\ Len(sites_file.entries[i].origins) = 2
           /\ "destination_protocol" \in DOMAIN sites_file.entries[i]
           /\ sites_file.entries[i].destination_icon # None

----------------------------------------------------------------------------
(* The activity fields of a full MediaWiki profile.                         *)

Users == {"alice", "bob"}

\* A full profile of a wiki whose qualifying edit of day t was made by
\* authors[t]; the code reads no author of a row.
MediawikiActivity(statistics, edits, authors, window_end) ==
    /\ probe = NoProbe
    /\ probe' = [op |-> "profile_mediawiki_activity", pc |-> "done",
                 statistics |-> statistics, edits |-> edits, authors |-> authors,
                 window_end |-> window_end,
                 raised |-> profile_mediawiki_wiki(<<"e", "n">>, TRUE, statistics, edits, window_end).raised,
                 wiki_metadata |-> profile_mediawiki_wiki(<<"e", "n">>, TRUE, statistics, edits, window_end).wiki_metadata]
    /\ UNCHANGED dataset_vars

MediawikiActivityRun == probe = NoProbe /\ \E statistics \in Statistics, edits \in SUBSET Days, authors \in [Days -> Users], window_end \in Days : MediawikiActivity(statistics, edits, authors, window_end)

NextMediawiki == MediawikiActivityRun \/ ProbeEnds

SpecMediawiki == Init /\ [][NextMediawiki]_vars

ActivityProfiled == probe.op = "profile_mediawiki_activity" /\ probe.pc = "done" /\ probe.raised = ""
RowsInWindow == {t \in probe.edits : t >= probe.window_end}

----------------------------------------------------------------------------
(* get_mediawiki_api_url (src/mediawiki_tools.py) on a page response.       *)

\* A URL as urlparse splits it; path and query are sequences of pieces, and
\* every path of the model begins with a slash.
Url(scheme, netloc, path, query) == [scheme |-> scheme, netloc |-> netloc, path |-> path, query |-> query]

\* The values an href or action attribute takes: "/w/api.php?action=rsd",
\* "https://c.miraheze.org/w/api.php", "//a.fandom.com/w/api.php?action=rsd",
\* "/w/index.php", "/w/?title=index.php", "/w/index.php?oldid=1".
Hrefs == {Url("", "", <<"/w/", "api.php">>, <<"action=rsd">>), Url("https", "c.miraheze.org", <<"/w/", "api.php">>, <<>>), Url("", "a.fandom.com", <<"/w/", "api.php">>, <<"action=rsd">>), Url("", "", <<"/w/", "index.php">>, <<>>), Url("", "", <<"/w/">>, <<"title=", "index.php">>), Url("", "", <<"/w/", "index.php">>, <<"oldid=1">>)}

\* url.endswith('index.php'): the text ends with its query if it has one.
ends_with_index_php(url) ==
    LET last == IF url.query # <<>> THEN url.query ELSE url.path
    IN  last # <<>> /\ last[Len(last)] = "index.php"

\* url.replace('index.php', 'api.php'): every occurrence.
replace_index_php(url) ==
    LET swap(pieces) == [k \in DOMAIN pieces |-> IF pieces[k] = "index.php" THEN "api.php" ELSE pieces[k]]
    IN  [url EXCEPT !.path = swap(url.path), !.query = swap(url.query)]

\* urlparse(url)._replace(query="").geturl()
without_query(url) == [url EXCEPT !.query = <<>>]

ensure_absolute_url(subject_url, donor_url) ==
    LET with_netloc == IF subject_url.netloc = ""
                       THEN [subject_url EXCEPT !.netloc = donor_url.netloc]
                       ELSE subject_url
    IN  IF with_netloc.scheme = ""
        THEN [with_netloc EXCEPT !.scheme = donor_url.scheme]
        ELSE with_netloc

\* ".fandom.com" in response.url, for the hosts of the model.
on_fandom(url) == url.netloc = "a.fandom.com"

FandomPageUrl == Url("https", "a.fandom.com", <<"/wiki/", "Main">>, <<>>)
PageUrls == {FandomPageUrl, Url("http", "bw.example.org", <<"/a/wiki/", "Main">>, <<>>)}

\* The Fandom page a BreezeWiki footer links to.
FandomPages == [url : {FandomPageUrl}, edit_uri : Optional(Hrefs), searchform : {<<>>}, permalink : {<<>>}, fandom_page : {<<>>}]

Pages == [url : PageUrls, edit_uri : Optional(Hrefs), searchform : Optional(Hrefs), permalink : Optional(Hrefs), fandom_page : Optional(FandomPages)]

RECURSIVE get_mediawiki_api_url(_)
get_mediawiki_api_url(response) ==
    IF response.edit_uri # <<>>
    THEN [branch |-> "EditURI",
          api_url |-> <<ensure_absolute_url(without_query(response.edit_uri[1]), response.url)>>]
    ELSE IF response.searchform # <<>> /\ ends_with_index_php(response.searchform[1])
    THEN [branch |-> "searchform",
          api_url |-> <<ensure_absolute_url(replace_index_php(response.searchform[1]), response.url)>>]
    ELSE IF response.permalink # <<>> /\ ends_with_index_php(response.permalink[1])
    THEN [branch |-> "permalink",
          api_url |-> <<ensure_absolute_url(without_query(replace_index_php(response.permalink[1])),
                                            response.url)>>]
    ELSE IF ~on_fandom(response.url) /\ response.fandom_page # <<>>
    THEN [branch |-> "BreezeWiki",
          api_url |-> get_mediawiki_api_url(response.fandom_page[1]).api_url]
    ELSE [branch |-> "none", api_url |-> <<>>]

GetApiUrl(response) ==
    /\ probe = NoProbe
    /\ probe' = [op |-> "get_mediawiki_api_url", pc |-> "done", response |-> response,
                 branch |-> get_mediawiki_api_url(response).branch,
                 api_url |-> get_mediawiki_api_url(response).api_url]
    /\ UNCHANGED dataset_vars

GetApiUrlRun == probe = NoProbe /\ \E response \in Pages : GetApiUrl(response)

NextApiUrl == GetApiUrlRun \/ ProbeEnds

SpecApiUrl == Init /\ [][NextApiUrl]_vars

ApiUrlFound == probe.op = "get_mediawiki_api_url" /\ probe.pc = "done" /\ probe.api_url # <<>>

\* C22: whichever branch found it, a returned API URL has a scheme and a host
\* and no query.
C22_ApiUrlAbsoluteWithoutQuery ==
    ApiUrlFound =>
        /\ probe.api_url[1].scheme # "" /\ probe.api_url[1].netloc # ""
        /\ probe.api_url[1].query = <<>>

\* Every returned API URL is absolute, and only the searchform branch can
\* return one with a query.
C22_QueryOnlyFromSearchform ==
    ApiUrlFound =>
        /\ probe.api_url[1].scheme # "" /\ probe.api_url[1].netloc # ""
        /\ probe.api_url[1].query # <<>> => probe.branch = "searchform"

\* A searchform action whose query ends in index.php gave an API URL with a
\* query.
C22_Witness ==
    /\ ApiUrlFound /\ probe.branch = "searchform"
    /\ probe.api_url[1].query = <<"title=", "api.php">>

\* The EditURI href /w/api.php?action=rsd gave a URL ending in /w/api.php.
C22_EditUriExample ==
    /\ ApiUrlFound /\ probe.branch = "EditURI"
    /\ probe.response.edit_uri[1] = Url("", "", <<"/w/", "api.php">>, <<"action=rsd">>)
    /\ probe.api_url[1] = Url("http", "bw.example.org", <<"/w/", "api.php">>, <<>>)

----------------------------------------------------------------------------
(* base_url and the paths of extract_metadata_from_siteinfo                 *)
(* (src/mediawiki_tools.py).                                                *)

\* Hostnames and paths are sequences of pieces; "" is <<>>.
SiteHosts == {<<"foo", ".fandom.com">>, <<"foo", ".wiki.gg">>, <<"c.miraheze.org">>, <<"foo", ".fandom.com", ".example.org">>}
ScriptPaths == {<<>>, <<"/es">>, <<"/w">>}
ArticlePaths == {<<"/wiki/", "$1">>, <<"/es", "/wiki/", "$1">>}
Scripts == {<<"/index.php">>, <<"/es", "/index.php">>, <<"/w", "/index.php">>}

SiteinfoGeneral == [hostname : SiteHosts, scriptpath : Optional(ScriptPaths), articlepath : ArticlePaths, script : Optional(Scripts)]

\* s.removeprefix(prefix)
removeprefix(s, prefix) == IF startswith(s, prefix) THEN SubSeq(s, Len(prefix) + 1, Len(s)) ELSE s

\* articlepath.replace("$1", "")
without_title(articlepath) == SelectSeq(articlepath, LAMBDA piece : piece # "$1")

\* ".fandom.com" in base_url or ".wiki.gg" in base_url
names_farm(base_url) == \E k \in DOMAIN base_url : base_url[k] \in {".fandom.com", ".wiki.gg"}

\* The path part of extract_metadata_from_siteinfo.  dict.get gives None for
\* a key that is absent: None != "" holds, and str + None is a TypeError;
\* None.removeprefix is an AttributeError.
siteinfo_paths(general) ==
    LET base_url == general.hostname
        search_path == general.script
        content_path == without_title(general.articlepath)
        script_path == general.scriptpath
    IN  IF names_farm(base_url) /\ script_path # <<<<>>>>
        THEN IF script_path = <<>>
             THEN [raised |-> "TypeError", base_url |-> base_url,
                   content_path |-> content_path, search_path |-> search_path]
             ELSE IF search_path = <<>>
             THEN [raised |-> "AttributeError", base_url |-> base_url \o script_path[1],
                   content_path |-> removeprefix(content_path, script_path[1]),
                   search_path |-> search_path]
             ELSE [raised |-> "", base_url |-> base_url \o script_path[1],
                   content_path |-> removeprefix(content_path, script_path[1]),
                   search_path |-> <<removeprefix(search_path[1], script_path[1])>>]
        ELSE [raised |-> "", base_url |-> base_url,
              content_path |-> content_path, search_path |-> search_path]

SiteinfoPaths(general) ==
    /\ probe = NoProbe
    /\ probe' = [op |-> "extract_metadata_from_siteinfo", pc |-> "done", general |-> general,
                 raised |-> siteinfo_paths(general).raised,
                 base_url |-> siteinfo_paths(general).base_url,
                 content_path |-> siteinfo_paths(general).content_path,
                 search_path |-> siteinfo_paths(general).search_path]
    /\ UNCHANGED dataset_vars

SiteinfoRun == probe = NoProbe /\ \E general \in SiteinfoGeneral : SiteinfoPaths(general)

NextSiteinfo == SiteinfoRun \/ ProbeEnds

SpecSiteinfo == Init /\ [][NextSiteinfo]_vars

SiteinfoDone == probe.op = "extract_metadata_from_siteinfo" /\ probe.pc = "done"
HostEndsInFarm == probe.general.hostname[Len(probe.general.hostname)] \in {".fandom.com", ".wiki.gg"}
HasScriptPath == probe.general.scriptpath # <<>> /\ probe.general.scriptpath[1] # <<>>
PathsUnchanged ==
    /\ probe.base_url = probe.general.hostname
    /\ probe.content_path = without_title(probe.general.articlepath)
    /\ probe.search_path = probe.general.script
PathsFolded ==
    /\ probe.base_url = probe.general.hostname \o probe.general.scriptpath[1]
    /\ probe.content_path = removeprefix(without_title(probe.general.articlepath), probe.general.scriptpath[1])
    /\ probe.general.script # <<>> =>
           probe.search_path = <<removeprefix(probe.general.script[1], probe.general.scriptpath[1])>>

\* C23: the script path is folded into base_url and cut from the paths
\* exactly when the host ends in .fandom.com or .wiki.gg and the script path
\* is there and not empty; in every other case, a missing script path
\* included, the call returns the hostname and the paths as they were.
C23_FoldedExactlyOnFarmHosts ==
    SiteinfoDone =>
        /\ probe.raised = ""
        /\ IF HostEndsInFarm /\ HasScriptPath THEN PathsFolded ELSE PathsUnchanged

\* With a script path and a script in the siteinfo, the call returns, and it
\* folds exactly when the hostname contains a farm's domain and the script
\* path is not empty.
C23_FoldedWhenHostNamesFarm ==
    (SiteinfoDone /\ probe.general.scriptpath # <<>> /\ probe.general.script # <<>>) =>
        /\ probe.raised = ""
        /\ IF names_farm(probe.general.hostname) /\ HasScriptPath THEN PathsFolded ELSE PathsUnchanged

\* A Fandom siteinfo without a script path: the call raises.
C23_Witness ==
    /\ SiteinfoDone /\ HostEndsInFarm
    /\ probe.general.scriptpath = <<>>
    /\ probe.raised = "TypeError"

\* foo.fandom.com with article path /wiki/$1 and script path /es.
C23_FandomExample ==
    /\ SiteinfoDone /\ probe.raised = ""
    /\ probe.general.hostname = <<"foo", ".fandom.com">>
    /\ probe.general.articlepath = <<"/wiki/", "$1">>
    /\ probe.base_url = <<"foo", ".fandom.com", "/es">>
    /\ probe.content_path = <<"/wiki/">>

----------------------------------------------------------------------------
(* query_mediawiki_api_with_continue (src/mediawiki_tools.py).              *)

\* A wiki that is not endless answers at most MaxPages pages; the log of a
\* call keeps its first MaxPages + 1 requests.
MaxPages == 2

ContinueTokens == {"t1", "t2"}
NoContinue == ""

\* The answers to one request of a wiki that has pages_left pages to give:
\* a page, with a continue object unless it is the last, with or without a
\* "query" part; an error payload; an error status; an exception.
ContinueAnswers(endless, pages_left) ==
    {[status |-> 200, body |-> b, continue |-> c] :
        b \in {"query", "noquery"},
        c \in IF endless \/ pages_left > 1 THEN ContinueTokens ELSE {NoContinue}}
    \cup {[status |-> 200, body |-> "error", continue |-> NoContinue]}
    \cup {[status |-> c, body |-> "html", continue |-> NoContinue] : c \in {TooManyRequests, 500}}
    \cup {[status |-> 0, body |-> "ConnectionError", continue |-> NoContinue]}

continue_begin(params, endless, pages) ==
    [op |-> "query_mediawiki_api_with_continue", pc |-> "request", params |-> params,
     endless |-> endless, pages_left |-> pages, last_continue |-> NoContinue,
     requests |-> <<>>, answers |-> <<>>, yielded |-> <<>>, sleeps |-> 0,
     overflow |-> FALSE, raised |-> ""]

\* Variant: the continue object of the first page is sent with every later
\* request.
continue_request_first_continue_kept(p, answer) ==
    LET logged == IF Len(p.requests) > MaxPages THEN [p EXCEPT !.overflow = TRUE]
                  ELSE [p EXCEPT !.requests = Append(@, [params |-> p.params, continue |-> p.last_continue]),
                                 !.answers = Append(@, answer)]
        yields == IF answer.body = "query" /\ ~logged.overflow
                  THEN [logged EXCEPT !.yielded = Append(@, Len(logged.answers))]
                  ELSE logged
    IN  IF answer.status = 0 THEN [logged EXCEPT !.pc = "done", !.raised = answer.body]
        ELSE IF ~ResponseOk(answer) THEN [logged EXCEPT !.pc = "done", !.raised = "HTTPError"]
        ELSE IF answer.body = "error" THEN [logged EXCEPT !.pc = "done", !.raised = "MediaWikiAPIError"]
        ELSE IF answer.continue = NoContinue THEN [yields EXCEPT !.pc = "done"]
        ELSE [yields EXCEPT !.last_continue = IF @ = NoContinue THEN answer.continue ELSE @,
                            !.pages_left = IF p.endless THEN @ ELSE @ - 1]

\* One turn of the loop: the request, the checks of its response, the yield
\* and the continue object kept for the next turn.
continue_request(p, answer) ==
    LET logged == IF Len(p.requests) > MaxPages THEN [p EXCEPT !.overflow = TRUE]
                  ELSE [p EXCEPT !.requests = Append(@, [params |-> p.params, continue |-> p.last_continue]),
                                 !.answers = Append(@, answer)]
        yields == IF answer.body = "query" /\ ~logged.overflow
                  THEN [logged EXCEPT !.yielded = Append(@, Len(logged.answers))]
                  ELSE logged
    IN  IF answer.status = 0 THEN [logged EXCEPT !.pc = "done", !.raised = answer.body]
        ELSE IF ~ResponseOk(answer) THEN [logged EXCEPT !.pc = "done", !.raised = "HTTPError"]
        ELSE IF answer.body = "error" THEN [logged EXCEPT !.pc = "done", !.raised = "MediaWikiAPIError"]
        ELSE IF answer.continue = NoContinue THEN [yields EXCEPT !.pc = "done"]
        ELSE [yields EXCEPT !.last_continue = answer.continue,
                            !.pages_left = IF p.endless THEN @ ELSE @ - 1]

InContinue == probe.op = "query_mediawiki_api_with_continue"

ContinueCall(params, endless, pages) ==
    /\ probe = NoProbe
    /\ probe' = continue_begin(params, endless, pages)
    /\ UNCHANGED dataset_vars

ContinueRequest(answer) ==
    /\ InContinue /\ probe.pc = "request"
    /\ probe' = continue_request(probe, answer)
    /\ UNCHANGED dataset_vars

ContinueStart == probe = NoProbe /\ \E params \in {"recentchanges", "allpages"}, endless \in BOOLEAN, pages \in 1..MaxPages : ContinueCall(params, endless, pages)

ContinueStep == InContinue /\ probe.pc = "request" /\ \E answer \in ContinueAnswers(probe.endless, probe.pages_left) : ContinueRequest(answer)

NextContinue == ContinueStart \/ ContinueStep \/ ProbeEnds

\* The consumer iterates the generator to its end, so the loop keeps
\* turning while it can.
SpecContinue == Init /\ [][NextContinue]_vars /\ WF_vars(ContinueStep)

Logged == InContinue /\ ~probe.overflow
IsPage(answer) == answer.status = 200 /\ answer.body # "error"

\* C24: a request of the continued query that is answered 429 is sent once
\* more, so a 429 is either followed by the same request or is itself the
\* answer to such a retry, and one 429 alone does not end the call with an
\* HTTP error.
C24_ContinuedQueryRetriesOn429 ==
    (Logged /\ probe.pc = "done") =>
        \A k \in DOMAIN probe.answers :
            probe.answers[k].status = TooManyRequests =>
                \/ k < Len(probe.requests) /\ probe.requests[k + 1] = probe.requests[k]
                \/ k > 1 /\ probe.answers[k - 1].status = TooManyRequests

\* The second page request was answered 429 and the call ended in HTTPError
\* without a sleep.
C24_Witness ==
    /\ Logged /\ probe.pc = "done" /\ probe.raised = "HTTPError"
    /\ Len(probe.answers) = 2
    /\ probe.answers[2].status = TooManyRequests
    /\ probe.sleeps = 0

C25_Requests ==
    Logged =>
        /\ Len(probe.requests) = Len(probe.answers)
        /\ \A k \in DOMAIN probe.requests :
               /\ probe.requests[k].params = probe.params
               /\ probe.requests[k].continue =
                      IF k = 1 THEN NoContinue ELSE probe.answers[k - 1].continue
        /\ \A k \in DOMAIN probe.answers :
               k < Len(probe.answers) =>
                   IsPage(probe.answers[k]) /\ probe.answers[k].continue # NoContinue

C25_Yields ==
    Logged =>
        /\ Range(probe.yielded) = {k \in DOMAIN probe.answers : IsPage(probe.answers[k]) /\ probe.answers[k].body = "query"}
        /\ \A i, j \in DOMAIN probe.yielded : i < j => probe.yielded[i] < probe.yielded[j]

C25_End ==
    (Logged /\ probe.answers # <<>>) =>
        LET last == probe.answers[Len(probe.answers)]
        IN  /\ (probe.pc = "done" /\ probe.raised = "") <=> (IsPage(last) /\ last.continue = NoContinue)
            /\ (probe.pc = "done" /\ probe.raised # "") <=> ~IsPage(last)

\* C25: the first request carries the caller's parameters and each later one
\* those parameters with the continue object of the response before it; the
\* query parts are yielded in response order; the call ends without error
\* exactly at the first page that has no continue object and with an error,
\* and no further request, at an error payload or error status; and a wiki
\* that runs out of pages brings every call to its end.
C25_ContinueProtocol ==
    /\ [](C25_Requests /\ C25_Yields /\ C25_End)
    /\ ((InContinue /\ ~probe.endless) ~> (InContinue /\ probe.pc = "done"))

\* A call of two pages: the second request carried the first response's
\* continue object, the call ended at the page without one, and only the
\* second page had a query part.
C25_Witness ==
    /\ Logged /\ probe.pc = "done" /\ probe.raised = ""
    /\ Len(probe.requests) = 2
    /\ probe.answers[1].continue = "t2"
    /\ probe.requests[2].continue = "t2"
    /\ probe.yielded = <<2>>

\* ---------------------------------------------------------------------------
\* retrieve_fextralife_recentchanges (fextralife_tools.py 86-183)
\*
\* The wiki's change log is a sequence of changes, newest first; the page at
\* offset k holds the changes at positions k*PageSize+1 .. (k+1)*PageSize of
\* the log as it is when the request arrives.  Between two page requests the
\* wiki may record a new change at the head of the log.  A row remembers the
\* request that fetched it (its position in rc_fragments).

MaxLog == 3
MaxPrepended == 2

RECURSIVE ChangeLogs(_)
\* The logs of n changes with ids n..1, dates never increasing.
ChangeLogs(n) ==
    IF n = 0 THEN {<<>>}
    ELSE UNION {{<<[id |-> n, date |-> d]>> \o rest :
                    rest \in {l \in ChangeLogs(n - 1) : l = <<>> \/ l[1].date <= d}} :
                d \in Days}

\* response.json() for the page at an offset
changes_page(log, offset) ==
    [i \in 1..(IF Len(log) >= (offset + 1) * PageSize THEN PageSize
               ELSE IF Len(log) > offset * PageSize THEN Len(log) - offset * PageSize
               ELSE 0) |-> log[offset * PageSize + i]]

RECURSIVE concat(_)
\* pd.concat(rc_fragments)
concat(fragments) ==
    IF fragments = <<>> THEN <<>> ELSE fragments[1] \o concat(Tail(fragments))

\* Variant: of the rows of one id the last is kept.
drop_duplicated_keep_last(rc_df) ==
    LET kept == {i \in DOMAIN rc_df : \A j \in DOMAIN rc_df : j > i => rc_df[j].id # rc_df[i].id}
        nth[k \in 0..Cardinality(kept)] ==
            IF k = 0 THEN 0 ELSE Minimum({i \in kept : i > nth[k - 1]})
    IN  [k \in 1..Cardinality(kept) |-> rc_df[nth[k]]]

\* rc_df[~rc_df.index.duplicated(keep='first')]
drop_duplicated(rc_df) ==
    LET kept == {i \in DOMAIN rc_df : \A j \in DOMAIN rc_df : j < i => rc_df[j].id # rc_df[i].id}
        nth[k \in 0..Cardinality(kept)] ==
            IF k = 0 THEN 0 ELSE Minimum({i \in kept : i > nth[k - 1]})
    IN  [k \in 1..Cardinality(kept) |-> rc_df[nth[k]]]

\* The state before the first turn of the loop: earliest_timestamp is now,
\* which is not before window_end.
fextralife_rc_begin(log, window_end) ==
    [op |-> "retrieve_fextralife_recentchanges", pc |-> "loop",
     log |-> log, first_log |-> log, window_end |-> window_end,
     offset |-> 0, requested |-> <<>>, rc_fragments |-> <<>>,
     earliest_timestamp |-> MaxDay, prepended |-> 0,
     raised |-> "", rc_df |-> <<>>]

\* One turn of the loop of retrieve_segmented_recentchanges, or, when the
\* loop condition fails, the concatenation and the removal of duplicates.
\* An empty page has no column 'id': set_index raises KeyError.
fextralife_rc_turn(p) ==
    IF p.earliest_timestamp >= p.window_end
    THEN LET page == changes_page(p.log, p.offset)
             fragment == [i \in DOMAIN page |->
                             [id |-> page[i].id, date |-> page[i].date,
                              request |-> Len(p.requested) + 1]]
         IN  IF page = <<>>
             THEN [p EXCEPT !.pc = "done", !.raised = "KeyError",
                            !.requested = Append(@, p.offset)]
             ELSE [p EXCEPT !.requested = Append(@, p.offset),
                            !.rc_fragments = Append(@, fragment),
                            !.earliest_timestamp =
                                Minimum({page[i].date : i \in DOMAIN page}),
                            !.offset = @ + 1]
    ELSE [p EXCEPT !.pc = "done", !.rc_df = drop_duplicated(concat(p.rc_fragments))]

InFextralifeRc == probe.op = "retrieve_fextralife_recentchanges"

FextralifeRcCall(log, window_end) ==
    /\ probe = NoProbe
    /\ probe' = fextralife_rc_begin(log, window_end)
    /\ UNCHANGED dataset_vars

FextralifeRcStart ==
    /\ probe = NoProbe
    /\ \E n \in 1..MaxLog : \E log \in ChangeLogs(n) : \E window_end \in 2..(MaxDay - 1) :
          FextralifeRcCall(log, window_end)

\* An editor saves a change between two page requests: it gets a fresh id,
\* the current time, and the head of the log.
FextralifeChange ==
    /\ InFextralifeRc /\ probe.pc = "loop"
    /\ probe.requested # <<>>
    /\ probe.prepended < MaxPrepended
    /\ probe' = [probe EXCEPT
                    !.log = <<[id |-> Len(probe.log) + 1, date |-> MaxDay]>> \o @,
                    !.prepended = @ + 1]
    /\ UNCHANGED dataset_vars

FextralifeRcTurn ==
    /\ InFextralifeRc /\ probe.pc = "loop"
    /\ probe' = fextralife_rc_turn(probe)
    /\ UNCHANGED dataset_vars

NextFextralifeRc == FextralifeRcStart \/ FextralifeChange \/ FextralifeRcTurn \/ ProbeEnds

SpecFextralifeRc == Init /\ [][NextFextralifeRc]_vars

FextralifeRcReturned == InFextralifeRc /\ probe.pc = "done" /\ probe.raised = ""

\* C26: when changes are prepended to the change log between page requests,
\* retrieve_fextralife_recentchanges requests the offsets 0, 1, 2, ... and
\* stops after the first page whose earliest timestamp is before the window;
\* what it returns holds each change id at most once, in the row of the
\* earliest request that fetched it, and holds every change that was inside
\* the window when the first request was sent.
C26_PrependedChangesDeduplicated ==
    InFextralifeRc =>
        /\ \A k \in DOMAIN probe.requested : probe.requested[k] = k - 1
        /\ \A k \in DOMAIN probe.rc_fragments :
              k < Len(probe.rc_fragments) =>
                  \A i \in DOMAIN probe.rc_fragments[k] :
                      probe.rc_fragments[k][i].date >= probe.window_end
        /\ FextralifeRcReturned =>
              /\ \E i \in DOMAIN probe.rc_fragments[Len(probe.rc_fragments)] :
                    probe.rc_fragments[Len(probe.rc_fragments)][i].date < probe.window_end
              /\ \A i, j \in DOMAIN probe.rc_df :
                    probe.rc_df[i].id = probe.rc_df[j].id => i = j
              /\ \A i \in DOMAIN probe.rc_df :
                    \A k \in DOMAIN probe.rc_fragments :
                        \A j \in DOMAIN probe.rc_fragments[k] :
                            probe.rc_fragments[k][j].id = probe.rc_df[i].id
                                => probe.rc_df[i].request <= k
              /\ \A c \in DOMAIN probe.first_log :
                    probe.first_log[c].date >= probe.window_end =>
                        \E i \in DOMAIN probe.rc_df :
                            /\ probe.rc_df[i].id = probe.first_log[c].id
                            /\ probe.rc_df[i].date = probe.first_log[c].date

\* A returned call during which a change was prepended, so that one change
\* was fetched by two requests and is returned once.
C26_Witness ==
    /\ FextralifeRcReturned
    /\ probe.prepended > 0
    /\ Len(concat(probe.rc_fragments)) > Len(probe.rc_df)
    /\ \E c \in DOMAIN probe.first_log : probe.first_log[c].date >= probe.window_end

\* ---------------------------------------------------------------------------
\* retrieve_dokuwiki_index (dokuwiki_tools.py 75-126)
\*
\* A namespace is the sequence of its name parts; the root namespace is the
\* empty sequence.  Every namespace of a wiki holds one page, named by its
\* namespace.  A served index page is given by the set of the namespaces it
\* shows expanded (with a ul of their own); a namespace is in the document
\* when every namespace above it, the root excepted, is expanded.

RootNamespace == <<>>

\* The namespaces of the largest wiki, in document order.
Namespaces == << <<"a">>, <<"a", "c">>, <<"a", "c", "d">>, <<"b">>, <<"b", "e">> >>

ParentNamespace(n) == SubSeq(n, 1, Len(n) - 1)

Within(d, n) == Len(d) <= Len(n) /\ SubSeq(n, 1, Len(d)) = d

NamespaceTrees ==
    {tree \in SUBSET Range(Namespaces) :
        \A n \in tree : Len(n) > 1 => ParentNamespace(n) \in tree}

\* directory_elem has a ul of its own.
loaded(directory_elem, expanded) ==
    directory_elem = RootNamespace \/ directory_elem \in expanded

\* directory_elem.xpath('.//a[@class="wikilink1"]'): the pages of every
\* namespace shown below the element, at any depth.
page_list(tree, directory_elem, expanded) ==
    IF ~loaded(directory_elem, expanded) THEN {}
    ELSE {n \in tree \cup {RootNamespace} :
             /\ Within(directory_elem, n)
             /\ \A k \in (Len(directory_elem) + 1)..Len(n) : SubSeq(n, 1, k) \in expanded}

\* The elements of directory_elem.xpath('./ul/li[./div/a[@class="idx_dir"]]')
\* that have no ul of their own.
collapsed_subdirectories(tree, directory_elem, expanded) ==
    IF ~loaded(directory_elem, expanded) THEN {}
    ELSE {n \in tree : Len(n) > 0 /\ ParentNamespace(n) = directory_elem /\ n \notin expanded}

\* The first of a set of namespaces in document order.
first_in_document(S) ==
    Namespaces[Minimum({k \in DOMAIN Namespaces : Namespaces[k] \in S})]

\* The index pages the wiki can serve for the expansion link of a namespace:
\* the namespace and the namespaces above it are expanded, any others may be.
ExpansionPages(tree, n) ==
    {expanded \in SUBSET tree : \A k \in 1..Len(n) : SubSeq(n, 1, k) \in expanded}

\* Entering parse_dokuwiki_index_directory: the pages listed below the
\* element are taken, and the loop over its subdirectories starts.
index_enter(p, directory_elem, expanded) ==
    [p EXCEPT
        !.parsed_entries =
            [n \in DOMAIN @ |->
                @[n] + (IF n \in page_list(p.tree, directory_elem, expanded) THEN 1 ELSE 0)],
        !.stack = Append(@, [directory_elem |-> directory_elem,
                             todo |-> collapsed_subdirectories(p.tree, directory_elem,
                                                               expanded)])]

index_begin(tree, expanded) ==
    index_enter([op |-> "retrieve_dokuwiki_index", pc |-> "parse", tree |-> tree,
                 served |-> expanded,
                 parsed_entries |-> [n \in Range(Namespaces) \cup {RootNamespace} |-> 0],
                 requests |-> <<>>, stack |-> <<>>],
                RootNamespace, expanded)

\* One turn of the loop over the subdirectories of the element on top of the
\* stack: the next collapsed one is requested and parsed; when none is left
\* the call of parse_dokuwiki_index_directory returns.
index_turn(p, expanded) ==
    LET frame == p.stack[Len(p.stack)]
        below == SubSeq(p.stack, 1, Len(p.stack) - 1)
    IN  IF frame.todo = {}
        THEN [p EXCEPT !.stack = below,
                       !.pc = IF below = <<>> THEN "done" ELSE "parse"]
        ELSE LET subdirectory_elem == first_in_document(frame.todo)
             IN  index_enter(
                     [p EXCEPT !.requests = Append(@, subdirectory_elem),
                               !.stack[Len(p.stack)].todo = @ \ {subdirectory_elem}],
                     subdirectory_elem, expanded)

InIndex == probe.op = "retrieve_dokuwiki_index"

\* The request of the index page: the wiki serves it with any of its
\* namespaces expanded.
DokuwikiIndexStart ==
    /\ probe = NoProbe
    /\ \E tree \in NamespaceTrees : \E expanded \in SUBSET tree :
          probe' = index_begin(tree, expanded)
    /\ UNCHANGED dataset_vars

DokuwikiIndexTurn ==
    /\ InIndex /\ probe.pc = "parse"
    /\ LET frame == probe.stack[Len(probe.stack)]
       IN  IF frame.todo = {}
           THEN probe' = index_turn(probe, {})
           ELSE \E expanded \in ExpansionPages(probe.tree, first_in_document(frame.todo)) :
                   probe' = index_turn(probe, expanded)
    /\ UNCHANGED dataset_vars

NextIndex == DokuwikiIndexStart \/ DokuwikiIndexTurn \/ ProbeEnds

SpecIndex == Init /\ [][NextIndex]_vars /\ WF_vars(DokuwikiIndexTurn)

IndexDone == InIndex /\ probe.pc = "done"

\* C27: for any namespace tree and any set of namespaces shown expanded in
\* a served index page, retrieve_dokuwiki_index, when it has ended, has
\* requested no namespace twice and returns every page of the wiki exactly
\* once.
C27_EveryPageOnce ==
    IndexDone =>
        /\ \A i, j \in DOMAIN probe.requests : probe.requests[i] = probe.requests[j] => i = j
        /\ \A n \in probe.tree \cup {RootNamespace} : probe.parsed_entries[n] = 1

\* What the walk does guarantee: it ends, no namespace is requested twice,
\* only collapsed namespaces are requested, and no page is returned twice.
C27_NoPageTwice ==
    InIndex =>
        /\ \A i, j \in DOMAIN probe.requests : probe.requests[i] = probe.requests[j] => i = j
        /\ \A n \in DOMAIN probe.parsed_entries : probe.parsed_entries[n] <= 1
        /\ \A n \in DOMAIN probe.parsed_entries :
              n \notin probe.tree \cup {RootNamespace} => probe.parsed_entries[n] = 0

C27_Terminates == InIndex ~> IndexDone

\* The walk has ended on an index page that showed namespace a expanded and
\* a:c inside it collapsed; the page of a:c was not returned.
C27_Witness ==
    /\ IndexDone
    /\ <<"a">> \in probe.served /\ <<"a", "c">> \in probe.tree \ probe.served
    /\ probe.parsed_entries[<<"a", "c">>] = 0

----------------------------------------------------------------------------
(* A refresh run with the outcome of its last profile_wiki call on record.  *)

CaughtKinds == {"request_error", "unsupported"}

NoRefreshStep == [kind |-> "none"]

\* refresh_sites_json after json.load.
refresh_run_begin(dataset, update_names, update_icons) ==
    [op |-> "refresh_sites_json", pc |-> "sites",
     update_names |-> update_names, update_icons |-> update_icons,
     sites_json |-> dataset.file.entries, favicons |-> dataset.favicons,
     request |-> 1, last |-> NoRefreshStep, caught |-> 0,
     raised |-> "", file |-> dataset.file]

\* Variant: a profile_wiki failure leaves refresh_site_entry as an exception.
refresh_run_site_failure_raised(p, profile, icon_response) ==
    LET site == Sites(p.sites_json)[p.request]
        i == site[1]
        j == site[2]
        entry == IF j = 0 THEN p.sites_json[i] ELSE p.sites_json[i].origins[j]
        r == IF j = 0
             THEN refresh_site_entry(entry, "destination", p.update_names, p.update_icons,
                                     profile, icon_response, p.favicons)
             ELSE refresh_site_entry(entry, "origin", p.update_names, FALSE,
                                     profile, icon_response, p.favicons)
        step == [kind |-> profile.kind, request |-> p.request,
                 before |-> entry, after |-> r.entry, sites_json |-> p.sites_json]
    IN  IF r.raised # "" \/ profile.kind \in CaughtKinds
        THEN [p EXCEPT !.pc = "done", !.raised = "Exception", !.last = step,
                       !.favicons = r.favicons]
        ELSE [p EXCEPT !.sites_json = IF j = 0 THEN [@ EXCEPT ![i] = r.entry]
                                      ELSE [@ EXCEPT ![i].origins[j] = r.entry],
                       !.favicons = r.favicons,
                       !.request = @ + 1, !.last = step]

\* One refresh_site_entry call of the loop of refresh_sites_json.
refresh_run_site(p, profile, icon_response) ==
    LET site == Sites(p.sites_json)[p.request]
        i == site[1]
        j == site[2]
        entry == IF j = 0 THEN p.sites_json[i] ELSE p.sites_json[i].origins[j]
        r == IF j = 0
             THEN refresh_site_entry(entry, "destination", p.update_names, p.update_icons,
                                     profile, icon_response, p.favicons)
             ELSE refresh_site_entry(entry, "origin", p.update_names, FALSE,
                                     profile, icon_response, p.favicons)
        step == [kind |-> profile.kind, request |-> p.request,
                 before |-> entry, after |-> r.entry, sites_json |-> p.sites_json]
    IN  IF r.raised # ""
        THEN [p EXCEPT !.pc = "done", !.raised = r.raised, !.last = step,
                       !.favicons = r.favicons]
        ELSE [p EXCEPT !.sites_json = IF j = 0 THEN [@ EXCEPT ![i] = r.entry]
                                      ELSE [@ EXCEPT ![i].origins[j] = r.entry],
                       !.favicons = r.favicons,
                       !.request = @ + 1, !.last = step,
                       !.caught = IF profile.kind \in CaughtKinds /\ @ = 0 THEN 1 ELSE @]

\* The json.dump that ends refresh_sites_json.
refresh_run_write(p, fault) ==
    [p EXCEPT !.pc = "done", !.file = write_sites_json(p.sites_json, fault),
              !.raised = IF fault = NoFault THEN "" ELSE "OSError"]

InRefreshRun == probe.op = "refresh_sites_json"

RefreshRunStart ==
    /\ probe = NoProbe
    /\ \E dataset \in RefreshDatasets : \E update_names, update_icons \in BOOLEAN :
          probe' = refresh_run_begin(dataset, update_names, update_icons)
    /\ UNCHANGED dataset_vars

RefreshRunSite ==
    /\ InRefreshRun /\ probe.pc = "sites"
    /\ probe.request <= Len(Sites(probe.sites_json))
    /\ \E kind \in ProfileKinds, metadata \in RefreshMetadata :
          \E icon_response \in {"ok", "http_error"} :
              probe' = refresh_run_site(probe, [kind |-> kind, metadata |-> metadata],
                                        icon_response)
    /\ UNCHANGED dataset_vars

RefreshRunWrite ==
    /\ InRefreshRun /\ probe.pc = "sites"
    /\ probe.request > Len(Sites(probe.sites_json))
    /\ \E fault \in {NoFault} \cup WriteFaults : probe' = refresh_run_write(probe, fault)
    /\ UNCHANGED dataset_vars

NextRefreshRun == RefreshRunStart \/ RefreshRunSite \/ RefreshRunWrite \/ ProbeEnds

SpecRefreshRun == Init /\ [][NextRefreshRun]_vars

\* C28: when the profile_wiki call of a refresh_site_entry ends in a request
\* error, a MediaWiki API error or the unsupported-software error, the
\* destination or origin entry is left as it was, tags included, and so is
\* the rest of the list; the run raises nothing, goes on with the next site,
\* and a run that ends without an exception has requested every site and
\* written the whole list to the file.
C28_FailedProfileLeavesEntry ==
    InRefreshRun =>
        /\ (probe.last.kind \in CaughtKinds) =>
              /\ probe.last.after = probe.last.before
              /\ probe.request > probe.last.request
              /\ probe.pc = "sites" =>
                    /\ probe.sites_json = probe.last.sites_json
                    /\ probe.request = probe.last.request + 1
                    /\ probe.raised = ""
              /\ probe.pc = "done" =>
                    /\ probe.request > Len(Sites(probe.sites_json))
                    /\ probe.raised \in {"", "OSError"}
        /\ (probe.pc = "done" /\ probe.raised = "") =>
              /\ probe.request > Len(Sites(probe.sites_json))
              /\ probe.file = [state |-> "complete", entries |-> probe.sites_json]

\* A run that wrote the file after the profile of a tagged destination had
\* failed and a later site had been refreshed.
C28_Witness ==
    /\ InRefreshRun /\ probe.pc = "done" /\ probe.raised = ""
    /\ probe.caught = 1
    /\ probe.last.kind = "metadata"
    /\ probe.last.after # probe.last.before
    /\ \E i \in DOMAIN probe.sites_json : "tags" \in DOMAIN probe.sites_json[i]

\* The state right after the failed profile of a tagged destination.
C28_FailureOnRecord ==
    /\ InRefreshRun /\ probe.pc = "sites"
    /\ probe.last.kind \in CaughtKinds
    /\ "tags" \in DOMAIN probe.last.before

----------------------------------------------------------------------------
(* The uniqueness of base URLs across refresh runs, stated for Spec.        *)

\* C29: in a dataset written by any sequence of add and refresh runs no
\* origin_base_url lies in two origins lists or twice in one, and no two
\* entries share a destination_base_url.
C29_UniquenessSurvivesRefresh ==
    sites_file.state = "complete" =>
        /\ \A i, k \in DOMAIN sites_file.entries :
              \A j \in DOMAIN sites_file.entries[i].origins :
                  \A l \in DOMAIN sites_file.entries[k].origins :
                      sites_file.entries[i].origins[j].origin_base_url
                          = sites_file.entries[k].origins[l].origin_base_url
                      => <<i, j>> = <<k, l>>
        /\ \A i, k \in DOMAIN sites_file.entries :
              sites_file.entries[i].destination_base_url
                  = sites_file.entries[k].destination_base_url => i = k

\* A refresh run has written two entries of one destination_base_url.
C29_Witness ==
    /\ call # NoCall /\ call.op = "refresh" /\ result.outcome = "refreshed"
    /\ \E i, k \in DOMAIN sites_file.entries :
          /\ i # k
          /\ sites_file.entries[i].destination_base_url
                 = sites_file.entries[k].destination_base_url

----------------------------------------------------------------------------
(* generate_redirect_entry for destinations of every platform.              *)

Platforms == {"mediawiki", "fextralife", "dokuwiki", "wikidot", "minmax"}

\* The destination's metadata with the platform its profile names.
DestinationOfPlatform(d, platform) ==
    [WikiMetadata(DestNames[d], DestPool[d], "https") EXCEPT !.platform = platform]

GeneratePlatformRun ==
    /\ probe = NoProbe
    /\ \E o \in DOMAIN OriginPool, d \in DOMAIN DestPool :
          \E platform \in Platforms, entry_id \in EntryIdArguments :
              GenerateEntry(OriginMeta(o), DestinationOfPlatform(d, platform), entry_id)

NextPlatform == GeneratePlatformRun \/ ProbeEnds

SpecPlatform == Init /\ [][NextPlatform]_vars

\* C30: the entry generate_redirect_entry returns has the platform of the
\* destination's metadata as its destination_platform, for each of the five
\* platforms, and the name, base URL, main page and search path of that
\* metadata in its other destination fields.
C30_PlatformFromMetadata ==
    (Generated /\ probe.raised = "") =>
        /\ probe.entry.destination_platform = probe.destination_site_metadata.platform
        /\ probe.entry.destination = probe.destination_site_metadata.name
        /\ probe.entry.destination_base_url = probe.destination_site_metadata.base_url
        /\ probe.entry.destination_main_page = probe.destination_site_metadata.main_page
        /\ probe.entry.destination_search_path = probe.destination_site_metadata.search_path

\* What does hold: the destination fields other than the platform are the
\* metadata's, and the platform is mediawiki.
C30_PlatformIsMediawiki ==
    (Generated /\ probe.raised = "") =>
        /\ probe.entry.destination_platform = "mediawiki"
        /\ probe.entry.destination = probe.destination_site_metadata.name
        /\ probe.entry.destination_base_url = probe.destination_site_metadata.base_url
        /\ probe.entry.destination_main_page = probe.destination_site_metadata.main_page
        /\ probe.entry.destination_search_path = probe.destination_site_metadata.search_path

\* An entry for a MinMax destination that names mediawiki as its platform.
C30_Witness ==
    /\ Generated /\ probe.raised = ""
    /\ probe.destination_site_metadata.platform = "minmax"
    /\ probe.entry.destination_platform = "mediawiki"

====
